---- MODULE Spec2Model ----

(***************************************************************************)
(* prisma-extension-saltids: a public integer id is the decimal            *)
(* concatenation of a random salt and the real (autoincrement) id.         *)
(*                                                                         *)
(*   SaltIdsHelper   (src/src/utils.ts)     encode / decode / generateSalt *)
(*   ModelRegistry   (src/src/utils.ts)     (base, salt) pairs, relations  *)
(*   logic           (src/unnamed/part_002) deepTransformInput,            *)
(*                                          deepInjectSalt,                *)
(*                                          deepHijackResult               *)
(*   $allOperations  (src/src/index.ts)     the interception pipeline      *)
(***************************************************************************)
EXTENDS Integers, Sequences, FiniteSets, TLC

VARIABLES
    helper,     \* the last SaltIdsHelper call: its arguments and its outcome
    descriptor, \* the descriptor passed to saltIdsExtension, or undefined
    client,     \* the Prisma client the extension is applied to
    modelRegistry, \* the ModelRegistry of the extension
    tables,     \* the tables of the storage engine
    call,       \* the model operation in flight, or the last one finished
    hj,         \* a direct call of deepHijackResult: its input and outcome
    direct      \* a direct call of another function: its input and outcome

(***************************************************************************)
(* Bounds of the model.                                                    *)
(***************************************************************************)
MaxSaltLen == 3      \* salt lengths 1..MaxSaltLen are tried on the helper
MaxRealId == 12      \* real ids -MaxRealId..MaxRealId are fed to encode
MaxSaltArg == 101    \* salts -2..MaxSaltArg are fed to encode
MaxPid == 1005       \* values -MaxPid..MaxPid are fed to decode
RandDen == 10        \* Math.random() yields k / RandDen, k in 0..RandDen-1
MaxRows == 2         \* rows the tables hold together

SaltLength == 3      \* saltLength of the test suite's client

(***************************************************************************)
(* JavaScript numbers and strings.  A string is a sequence of one          *)
(* character strings; Number.prototype.toString and Number(string) are     *)
(* the decimal conversions.                                                *)
(***************************************************************************)
DigitChars == <<"0", "1", "2", "3", "4", "5", "6", "7", "8", "9">>

abs(n) == IF n < 0 THEN -n ELSE n

RECURSIVE digitsOf(_)
digitsOf(n) ==
    IF n < 10 THEN <<DigitChars[n + 1]>>
    ELSE digitsOf(n \div 10) \o <<DigitChars[(n % 10) + 1]>>

toString(n) == IF n < 0 THEN <<"-">> \o digitsOf(-n) ELSE digitsOf(n)

RECURSIVE Number(_)
Number(str) ==
    LET digitVal(c) == CHOOSE d \in 0..9 : DigitChars[d + 1] = c
    IN  IF str = <<>> THEN 0
        ELSE Number(SubSeq(str, 1, Len(str) - 1)) * 10 + digitVal(str[Len(str)])

slice(str, from, to) == SubSeq(str, from + 1, to)

RECURSIVE pow10(_)
pow10(n) == IF n <= 0 THEN 1 ELSE 10 * pow10(n - 1)

(***************************************************************************)
(* SaltIdsHelper (src/src/utils.ts).  A call either returns or throws.     *)
(***************************************************************************)
Thrown == [t |-> "throw"]
Returned(n) == [t |-> "num", n |-> n]

encode_noNegativeCheck(realId, salt, saltLen) ==
    LET saltStr == toString(salt) IN
    IF Len(saltStr) # saltLen THEN Thrown
    ELSE LET resultStr == saltStr \o toString(abs(realId))
             result == IF salt < 0 THEN -Number(Tail(resultStr))
                       ELSE Number(resultStr)
         IN  Returned(IF realId < 0 THEN -result ELSE result)

encode(realId, salt, saltLen) ==
    LET saltStr == toString(salt) IN
    IF salt < 0 \/ Len(saltStr) # saltLen THEN Thrown
    ELSE LET resultStr == saltStr \o toString(abs(realId))
             result == Number(resultStr)
         IN  Returned(IF realId < 0 THEN -result ELSE result)

decode_signDropped(pid, saltLen) ==
    LET pidStr == toString(abs(pid)) IN
    IF Len(pidStr) <= saltLen THEN [id |-> pid, salt |-> 0]
    ELSE [id |-> Number(slice(pidStr, saltLen, Len(pidStr))),
          salt |-> Number(slice(pidStr, 0, saltLen))]

decode(pid, saltLen) ==
    LET pidStr == toString(abs(pid)) IN
    IF Len(pidStr) <= saltLen THEN [id |-> pid, salt |-> 0]
    ELSE LET saltStr == slice(pidStr, 0, saltLen)
             idStr == slice(pidStr, saltLen, Len(pidStr))
             salt == Number(saltStr)
             id == Number(idStr)
         IN  [id |-> IF pid < 0 THEN -id ELSE id, salt |-> salt]

isPotentialSaltId_atLeast(val, saltLen) == Len(toString(abs(val))) >= saltLen

isPotentialSaltId(val, saltLen) == Len(toString(abs(val))) > saltLen

\* Math.random() is k / RandDen for some k in 0..RandDen-1, so
\* Math.floor(min + Math.random() * 9 * min) = min + floor(k * 9 * min / RandDen).
generateSalt_minTenPowLen(saltLen, k) ==
    LET min == pow10(saltLen) IN min + ((k * 9 * min) \div RandDen)

\* the random part without the minimum
generateSalt_noMin(saltLen, k) ==
    LET min == pow10(saltLen - 1) IN (k * 9 * min) \div RandDen

generateSalt(saltLen, k) ==
    LET min == pow10(saltLen - 1) IN min + ((k * 9 * min) \div RandDen)

(***************************************************************************)
(* JavaScript values.  An object is the sequence of its own properties in  *)
(* insertion order; a property is a data property or (get.on) an accessor  *)
(* whose getter closes over baseVal, saltVal and the salt length.          *)
(***************************************************************************)
Num(n) == [t |-> "number", n |-> n]
Null == [t |-> "null"]
Undefined == [t |-> "undefined"]
True == [t |-> "boolean", b |-> TRUE]
Str(s) == [t |-> "string", s |-> s]
Obj(props) == [t |-> "object", props |-> props]
Arr(items) == [t |-> "array", items |-> items]

NoGetter == [on |-> FALSE, baseVal |-> 0, saltVal |-> 0, saltLength |-> 0]

Prop(key, value) ==
    [key |-> key, value |-> value, enumerable |-> TRUE, get |-> NoGetter]

\* typeof val === "object" && val !== null
isObject(val) == val.t \in {"object", "array"}

isPlainObject(val) == val.t = "object"

\* !val is false
truthy(val) ==
    CASE val.t \in {"undefined", "null"} -> FALSE
      [] val.t = "number" -> val.n # 0
      [] val.t = "boolean" -> val.b
      [] val.t = "string" -> val.s # ""
      [] OTHER -> TRUE

propIndex(obj, key) ==
    IF obj.t = "object" /\ \E i \in 1..Len(obj.props) : obj.props[i].key = key
    THEN CHOOSE i \in 1..Len(obj.props) : obj.props[i].key = key
    ELSE 0

\* key in obj
hasOwn(obj, key) == propIndex(obj, key) # 0

\* Object.keys(obj): the enumerable own keys, in insertion order
RECURSIVE keysOfProps(_)
keysOfProps(props) ==
    IF props = <<>> THEN <<>>
    ELSE (IF Head(props).enumerable THEN <<Head(props).key>> ELSE <<>>)
             \o keysOfProps(Tail(props))

objectKeys(obj) == keysOfProps(obj.props)

\* obj[key]
getProp(obj, key) ==
    LET \* reading a property: a getter runs encode and may throw
        readProp(p) ==
            LET \* what a read yields: the number encode returned, or its throw
                numberOrThrown(r) ==
                    IF r.t = "throw" THEN Thrown ELSE Num(r.n)
            IN  IF p.get.on
                THEN numberOrThrown(encode(p.get.baseVal, p.get.saltVal, p.get.saltLength))
                ELSE p.value
    IN  IF hasOwn(obj, key) THEN readProp(obj.props[propIndex(obj, key)])
        ELSE Undefined

\* obj[key] = value: the setter of a hijacked base is a no-op
setProp(obj, key, value) ==
    LET i == propIndex(obj, key) IN
    IF i = 0 THEN Obj(Append(obj.props, Prop(key, value)))
    ELSE IF obj.props[i].get.on THEN obj
    ELSE Obj([obj.props EXCEPT ![i].value = value])

\* delete obj[key]
deleteProp(obj, key) == Obj(SelectSeq(obj.props, LAMBDA p : p.key # key))

\* Object.defineProperty(obj, key, descriptor)
defineProperty(obj, key, prop) ==
    LET i == propIndex(obj, key) IN
    IF i = 0 THEN Obj(Append(obj.props, prop))
    ELSE Obj([obj.props EXCEPT ![i] = prop])

\* key.endsWith(suffix)
endsWith(key, suffix) ==
    /\ Len(key) >= Len(suffix)
    /\ SubSeq(key, Len(key) - Len(suffix) + 1, Len(key)) = suffix

(***************************************************************************)
(* The schema descriptor (DMMF) of the repository's Prisma schema: User    *)
(* and Post, as the migrations and the README give them.  SaltDefaultDmmf  *)
(* is the same schema with idSalt Int? @default(0) on User.                *)
(***************************************************************************)
Autoincrement == [t |-> "function", name |-> "autoincrement"]

\* default is the field's @default, or Undefined when it has none
Field(name, kind, type, isList, default) ==
    [name |-> name, kind |-> kind, type |-> type, isList |-> isList,
     hasDefaultValue |-> default # Undefined, default |-> default]

UserFields(saltDefault) ==
    << Field("id", "scalar", "Int", FALSE, Autoincrement),
       Field("idSalt", "scalar", "Int", FALSE, saltDefault),
       Field("name", "scalar", "String", FALSE, Undefined),
       Field("posts", "object", "Post", TRUE, Undefined) >>

PostFields ==
    << Field("postPk", "scalar", "Int", FALSE, Autoincrement),
       Field("postPkSalt", "scalar", "Int", FALSE, Undefined),
       Field("title", "scalar", "String", FALSE, Undefined),
       Field("authorId", "scalar", "Int", FALSE, Undefined),
       Field("authorIdSalt", "scalar", "Int", FALSE, Undefined),
       Field("author", "object", "User", FALSE, Undefined) >>

DmmfOf(userFields) ==
    [t |-> "object",
     datamodel |-> [models |-> << [name |-> "User", fields |-> userFields],
                                  [name |-> "Post", fields |-> PostFields] >>]]

RepoDmmf == DmmfOf(UserFields(Undefined))

SaltDefaultDmmf == DmmfOf(UserFields(Num(0)))

ModelNames == {"User", "Post"}

(***************************************************************************)
(* ModelRegistry (src/src/utils.ts).                                       *)
(***************************************************************************)
NewRegistry ==
    [initialized |-> FALSE, saltFields |-> [name \in {} |-> <<>>],
     relations |-> [name \in {} |-> <<>>]]

isIntField(f) == f.kind = "scalar" /\ f.type = "Int"

\* whether the field of that name has a storage default
defaultStatus(fields, name) ==
    \E i \in 1..Len(fields) :
        fields[i].name = name /\ fields[i].hasDefaultValue

RECURSIVE validSalts(_, _, _)
RECURSIVE validSalts_anyType(_, _, _)
validSalts_anyType(fields, rest, suffix) ==
    LET names(fields1) == {fields1[i].name : i \in 1..Len(fields1)}
    IN  IF rest = <<>> THEN <<>>
        ELSE (IF isIntField(Head(rest))
                 /\ (Head(rest).name \o suffix) \in names(fields)
              THEN << [base |-> Head(rest).name,
                       salt |-> Head(rest).name \o suffix,
                       hasDefaultValue |->
                           defaultStatus(fields, Head(rest).name),
                       saltHasDefaultValue |->
                           defaultStatus(fields, Head(rest).name \o suffix)] >>
              ELSE <<>>)
                 \o validSalts_anyType(fields, Tail(rest), suffix)

validSalts(fields, rest, suffix) ==
    LET intFields(fields1) ==
            {fields1[i].name : i \in {j \in 1..Len(fields1) : isIntField(fields1[j])}}
    IN  IF rest = <<>> THEN <<>>
        ELSE LET f == Head(rest)
                 potentialSaltName == f.name \o suffix
             IN  (IF isIntField(f) /\ potentialSaltName \in intFields(fields)
                  THEN << [base |-> f.name, salt |-> potentialSaltName,
                           hasDefaultValue |-> defaultStatus(fields, f.name),
                           saltHasDefaultValue |->
                               defaultStatus(fields, potentialSaltName)] >>
                  ELSE <<>>)
                     \o validSalts(fields, Tail(rest), suffix)

\* the models whose fields parse reads before it returns or throws: all of
\* them, or those before the first model without a field list
RECURSIVE parsedModels(_)
parsedModels(models) ==
    IF models = <<>> \/ "fields" \notin DOMAIN Head(models) THEN <<>>
    ELSE <<Head(models)>> \o parsedModels(Tail(models))

\* dmmf.datamodel.models, where parse can read it
modelsOf(dmmf) ==
    IF "datamodel" \in DOMAIN dmmf /\ "models" \in DOMAIN dmmf.datamodel
    THEN dmmf.datamodel.models
    ELSE <<>>

\* parse throws a TypeError: dmmf.datamodel is undefined, models is not
\* iterable, or fields.forEach is read of undefined
parseThrows(dmmf) ==
    \/ "datamodel" \notin DOMAIN dmmf
    \/ "models" \notin DOMAIN dmmf.datamodel
    \/ parsedModels(modelsOf(dmmf)) # modelsOf(dmmf)

parse(registry, dmmf, suffix) ==
    LET relationMap(fields) ==
            LET objs == {i \in 1..Len(fields) : fields[i].kind = "object"} IN
            [name \in {fields[i].name : i \in objs} |->
                LET f == fields[CHOOSE i \in objs : fields[i].name = name]
                IN  [name |-> f.name, type |-> f.type, isList |-> f.isList]]
        \* the model of that name that the loop of parse sets last
        lastModel(models, name) ==
            models[CHOOSE i \in 1..Len(models) :
                       /\ models[i].name = name
                       /\ \A j \in (i + 1)..Len(models) : models[j].name # name]
        \* this.saltFields.set, this.relations.set for each model in turn
        setAll(models, names) ==
            [registry EXCEPT
                !.saltFields = [name \in names \cup DOMAIN registry.saltFields |->
                    IF name \in names
                    THEN validSalts(lastModel(models, name).fields,
                                    lastModel(models, name).fields, suffix)
                    ELSE registry.saltFields[name]],
                !.relations = [name \in names \cup DOMAIN registry.relations |->
                    IF name \in names
                    THEN relationMap(lastModel(models, name).fields)
                    ELSE registry.relations[name]]]
        namesOf(models) == setAll(models, {models[i].name : i \in 1..Len(models)})
    IN  namesOf(parsedModels(modelsOf(dmmf)))

\* an init that sets the flag and leaves the maps to be built later
init_flagFirst(registry, dmmf, suffix) ==
    IF registry.initialized \/ ~truthy(dmmf) THEN registry
    ELSE [registry EXCEPT !.initialized = TRUE]

\* init throws what parse throws
initThrows(registry, dmmf) ==
    ~registry.initialized /\ truthy(dmmf) /\ parseThrows(dmmf)

init_reparse(registry, dmmf, suffix) ==
    IF ~truthy(dmmf) THEN registry
    ELSE [parse(registry, dmmf, suffix) EXCEPT
             !.initialized = ~parseThrows(dmmf)]

\* the registry after init returned or threw
init(registry, dmmf, suffix) ==
    IF registry.initialized \/ ~truthy(dmmf) THEN registry
    ELSE [parse(registry, dmmf, suffix) EXCEPT
             !.initialized = ~parseThrows(dmmf)]

getSaltFields(registry, model) ==
    IF model \in DOMAIN registry.saltFields THEN registry.saltFields[model]
    ELSE <<>>

getRelation(registry, model, field) ==
    IF /\ model \in DOMAIN registry.relations
       /\ field \in DOMAIN registry.relations[model]
    THEN registry.relations[model][field]
    ELSE Undefined

\* saltFields.find((f) => f.base === key)
findByBase(saltFields, key) ==
    IF \E i \in 1..Len(saltFields) : saltFields[i].base = key
    THEN saltFields[CHOOSE i \in 1..Len(saltFields) :
                        /\ saltFields[i].base = key
                        /\ \A j \in 1..(i - 1) : saltFields[j].base # key]
    ELSE Undefined

(***************************************************************************)
(* logic (src/unnamed/part_002).  The code mutates its argument in place;  *)
(* each operator returns the argument as the code leaves it.               *)
(***************************************************************************)

pushAnd(where, clause) ==
    LET \* where.AND, which holds cur, gets the clause appended
        pushOnto(cur) ==
            IF cur = Undefined THEN setProp(where, "AND", Arr(<<clause>>))
            ELSE IF cur.t = "array"
            THEN setProp(where, "AND", Arr(Append(cur.items, clause)))
            ELSE setProp(where, "AND", Arr(<<cur, clause>>))
    IN  pushOnto(getProp(where, "AND"))

NotSaltId == [isSaltId |-> FALSE, id |-> 0, salt |-> 0]

decodeSaltIdIfNeeded(val, options) ==
    LET decodedAs(d) == [isSaltId |-> TRUE, id |-> d.id, salt |-> d.salt]
    IN  IF val.t # "number" THEN NotSaltId
        ELSE IF ~isPotentialSaltId(val.n, options.saltLength) THEN NotSaltId
        ELSE decodedAs(decode(val.n, options.saltLength))

\* { [baseKey]: id, [saltKey]: salt }
pairClause(baseKey, saltKey, decoded) ==
    Obj(<<Prop(baseKey, Num(decoded.id)), Prop(saltKey, Num(decoded.salt))>>)

\* the numbers of a list that decode (salted) or do not
numbersOf(input, options, salted) ==
    SelectSeq(IF input.t = "array" THEN input.items ELSE <<>>,
              LAMBDA v : /\ v.t = "number"
                         /\ decodeSaltIdIfNeeded(v, options).isSaltId = salted)

buildOrClausesForIn(baseKey, saltKey, input, options) ==
    LET orClausesOf(rawIds, saltIds) ==
            (IF Len(rawIds) > 0
             THEN <<Obj(<<Prop(baseKey, Obj(<<Prop("in", Arr(rawIds))>>))>>)>>
             ELSE <<>>)
                \o [i \in 1..Len(saltIds) |->
                       pairClause(baseKey, saltKey,
                                  decodeSaltIdIfNeeded(saltIds[i], options))]
    IN  orClausesOf(numbersOf(input, options, FALSE),
                    numbersOf(input, options, TRUE))

filterEqualsOrSet(s, op, saltKey, options) ==
    LET \* decodeToAndSaltEq on the operand of "equals" or "set"
        equalsDecoded(decoded) ==
            IF ~decoded.isSaltId THEN s
            ELSE [where |-> pushAnd(s.where, Obj(<<Prop(saltKey, Num(decoded.salt))>>)),
                  filter |-> setProp(s.filter, op, Num(decoded.id)),
                  did |-> TRUE]
    IN  IF ~hasOwn(s.filter, op) THEN s
        ELSE equalsDecoded(decodeSaltIdIfNeeded(getProp(s.filter, op), options))

\* the salt is compared too, as it is for equals
filterRange_saltEq(s, op, options) ==
    LET rangeDecoded(decoded) ==
            IF ~decoded.isSaltId THEN s
            ELSE [where |-> pushAnd(s.where,
                                Obj(<<Prop("idSalt", Num(decoded.salt))>>)),
                  filter |-> setProp(s.filter, op, Num(decoded.id)),
                  did |-> TRUE]
    IN  IF ~hasOwn(s.filter, op) THEN s
        ELSE rangeDecoded(decodeSaltIdIfNeeded(getProp(s.filter, op), options))

filterRange(s, op, options) ==
    LET \* "gt", "gte", "lt", "lte": the decoded real id only
        rangeDecoded(decoded) ==
            IF ~decoded.isSaltId THEN s
            ELSE [s EXCEPT !.filter = setProp(s.filter, op, Num(decoded.id)),
                           !.did = TRUE]
    IN  IF ~hasOwn(s.filter, op) THEN s
        ELSE rangeDecoded(decodeSaltIdIfNeeded(getProp(s.filter, op), options))

nonEmptyArray(val) == val.t = "array" /\ Len(val.items) > 0

\* filter.in stays where it was
filterIn_inKept(s, baseKey, saltKey, options) ==
    LET inClauses(orClauses) ==
            IF Len(orClauses) > 0
            THEN [where |-> pushAnd(s.where, Obj(<<Prop("OR", Arr(orClauses))>>)),
                  filter |-> s.filter, did |-> TRUE]
            ELSE s
    IN  IF ~nonEmptyArray(getProp(s.filter, "in")) THEN s
        ELSE inClauses(buildOrClausesForIn(baseKey, saltKey,
                                              getProp(s.filter, "in"), options))

filterIn(s, baseKey, saltKey, options) ==
    LET \* filter.in is deleted and the clauses, if any, go under AND as an OR
        inClauses(orClauses) ==
            IF Len(orClauses) > 0
            THEN [where |-> pushAnd(s.where, Obj(<<Prop("OR", Arr(orClauses))>>)),
                  filter |-> deleteProp(s.filter, "in"), did |-> TRUE]
            ELSE [s EXCEPT !.filter = deleteProp(s.filter, "in")]
    IN  IF ~nonEmptyArray(getProp(s.filter, "in")) THEN s
        ELSE inClauses(buildOrClausesForIn(baseKey, saltKey,
                                              getProp(s.filter, "in"), options))

filterNotIn(s, baseKey, saltKey, options) ==
    LET \* the salted ids go under AND as NOT: OR; the raw ids stay in notIn
        notInClauses(rawIds, orClauses) ==
            [where |-> IF Len(orClauses) > 0
                       THEN pushAnd(s.where,
                                Obj(<<Prop("NOT",
                                           Obj(<<Prop("OR", Arr(orClauses))>>))>>))
                       ELSE s.where,
             filter |-> IF Len(rawIds) > 0 THEN setProp(s.filter, "notIn", Arr(rawIds))
                        ELSE deleteProp(s.filter, "notIn"),
             did |-> s.did \/ Len(orClauses) > 0]
    IN  IF ~hasOwn(s.filter, "notIn") THEN s
        ELSE notInClauses(numbersOf(getProp(s.filter, "notIn"), options, FALSE),
                 buildOrClausesForIn(baseKey, saltKey,
                     Arr(numbersOf(getProp(s.filter, "notIn"), options, TRUE)),
                     options))

\* where gets NOT: clause appended and filter.not is deleted
pushNot(s, clause) ==
    [where |-> pushAnd(s.where, Obj(<<Prop("NOT", clause)>>)),
     filter |-> deleteProp(s.filter, "not"), did |-> TRUE]

filterNot(s, baseKey, saltKey, options) ==
    LET notDecoded(notVal, decoded) ==
            LET \* not: { equals: v }
                notEquals(decodedInner) ==
                    IF decodedInner.isSaltId
                    THEN pushNot(s, pairClause(baseKey, saltKey, decodedInner))
                    ELSE s
                \* not: { in: [...] }
                notInner(orClauses) ==
                    IF Len(orClauses) > 0
                    THEN pushNot(s, Obj(<<Prop("OR", Arr(orClauses))>>))
                    ELSE s
            IN  IF decoded.isSaltId THEN pushNot(s, pairClause(baseKey, saltKey, decoded))
                ELSE IF ~isPlainObject(notVal) THEN s
                ELSE IF hasOwn(notVal, "equals")
                THEN notEquals(decodeSaltIdIfNeeded(getProp(notVal, "equals"), options))
                ELSE IF hasOwn(notVal, "in") /\ nonEmptyArray(getProp(notVal, "in"))
                THEN notInner(buildOrClausesForIn(baseKey, saltKey,
                                                     getProp(notVal, "in"), options))
                ELSE s
    IN  IF ~hasOwn(s.filter, "not") THEN s
        ELSE notDecoded(getProp(s.filter, "not"),
                        decodeSaltIdIfNeeded(getProp(s.filter, "not"), options))

\* the operators of a filter object, in the order the code handles them;
\* an operator the filter does not hold is passed over
FilterOps ==
    <<"equals", "set", "gt", "gte", "lt", "lte", "in", "notIn", "not">>

RECURSIVE filterSteps(_, _, _, _, _)
filterSteps(s, ops, baseKey, saltKey, options) ==
    LET filterStep(op) ==
            CASE op \in {"equals", "set"} -> filterEqualsOrSet(s, op, saltKey, options)
              [] op \in {"gt", "gte", "lt", "lte"} -> filterRange(s, op, options)
              [] op = "in" -> filterIn(s, baseKey, saltKey, options)
              [] op = "notIn" -> filterNotIn(s, baseKey, saltKey, options)
              [] op = "not" -> filterNot(s, baseKey, saltKey, options)
    IN  IF ops = <<>> THEN s
        ELSE filterSteps(filterStep(Head(ops)),
                         Tail(ops), baseKey, saltKey, options)

\* filter is where[baseKey]: what is done to it shows in where
transformSaltedFieldFilterObject(where, baseKey, saltKey, filter, options) ==
    LET \* an emptied filter object is deleted from where
        filterResult(s) ==
            [obj |-> IF Len(objectKeys(s.filter)) = 0
                     THEN deleteProp(s.where, baseKey)
                     ELSE setProp(s.where, baseKey, s.filter),
             didTransformId |-> s.did]
    IN  filterResult(filterSteps([where |-> where, filter |-> filter,
                                  did |-> FALSE],
                                 SelectSeq(FilterOps,
                                           LAMBDA op : hasOwn(filter, op)),
                                 baseKey, saltKey, options))

RECURSIVE deepTransformInput(_, _, _, _)
RECURSIVE transformItems(_, _, _, _)
RECURSIVE transformKeys(_, _, _, _, _)

Same(obj) == [obj |-> obj, didTransformId |-> FALSE]

\* Case A: a number under a base key is decoded when it has no salt beside it
decodeBase(obj, key, val, saltFieldDef, d) ==
    [obj |-> setProp(setProp(obj, key, Num(d.id)), saltFieldDef.salt,
                     Num(d.salt)),
     didTransformId |-> TRUE]

\* Case B: the value under the key is put back as the recursion left it
recursed(obj, key, res) ==
    [didTransformId |-> res.didTransformId, obj |-> setProp(obj, key, res.obj)]

\* the body of the loop over Object.keys(obj), for one key
transformVal(obj, key, val, saltFieldDef, relation, modelName, registry,
             options) ==
    IF saltFieldDef # Undefined /\ val.t = "number"
    THEN IF /\ getProp(obj, saltFieldDef.salt) = Undefined
            /\ isPotentialSaltId(val.n, options.saltLength)
         THEN decodeBase(obj, key, val, saltFieldDef,
                         decode(val.n, options.saltLength))
         ELSE Same(obj)
    ELSE IF saltFieldDef # Undefined /\ val = True
    THEN IF getProp(obj, saltFieldDef.salt) = Undefined
         THEN Same(setProp(obj, saltFieldDef.salt, True))
         ELSE Same(obj)
    ELSE IF saltFieldDef # Undefined /\ isPlainObject(val)
    THEN transformSaltedFieldFilterObject(obj, saltFieldDef.base,
                                          saltFieldDef.salt, val, options)
    ELSE IF isObject(val)
    THEN recursed(obj, key,
             deepTransformInput(val,
                 IF relation # Undefined THEN relation.type ELSE modelName,
                 registry, options))
    ELSE Same(obj)

\* an ordering direction is taken for a selection marker
transformKey_directionMarks(obj, key, modelName, registry, options) ==
    transformVal(obj, key,
                 IF getProp(obj, key).t = "string" THEN True
                 ELSE getProp(obj, key),
                 findByBase(getSaltFields(registry, modelName), key),
                 getRelation(registry, modelName, key),
                 modelName, registry, options)

transformKey(obj, key, modelName, registry, options) ==
    transformVal(obj, key, getProp(obj, key),
                 findByBase(getSaltFields(registry, modelName), key),
                 getRelation(registry, modelName, key),
                 modelName, registry, options)

transformKeys(obj, keys, modelName, registry, options) ==
    LET \* the loop after one key: its flag joins the flags of the rest
        joined(one, rest) ==
            [didTransformId |-> one.didTransformId \/ rest.didTransformId,
             obj |-> rest.obj]
        transformRest(one, keys1) ==
            IF keys1 = <<>> THEN one
            ELSE joined(one, transformKeys(one.obj, keys1, modelName,
                                           registry, options))
    IN  IF keys = <<>> THEN Same(obj)
        ELSE transformRest(transformKey(obj, Head(keys), modelName, registry, options),
                 Tail(keys))

transformItems(items, modelName, registry, options) ==
    LET itemsResult(one, rest) ==
            [items |-> <<one.obj>> \o rest.items,
             didTransformId |-> one.didTransformId \/ rest.didTransformId]
    IN  IF items = <<>> THEN [items |-> <<>>, didTransformId |-> FALSE]
        ELSE itemsResult(deepTransformInput(Head(items), modelName, registry, options),
                 transformItems(Tail(items), modelName, registry, options))

\* Pass A
deepTransformInput(obj, modelName, registry, options) ==
    LET arrayResult(res) ==
            [obj |-> Arr(res.items), didTransformId |-> res.didTransformId]
    IN  IF ~truthy(obj) \/ ~isObject(obj) THEN Same(obj)
        ELSE IF modelName = "" THEN Same(obj)
        ELSE IF obj.t = "array"
        THEN arrayResult(transformItems(obj.items, modelName, registry, options))
        ELSE transformKeys(obj, objectKeys(obj), modelName, registry, options)

RECURSIVE deepInjectSalt(_, _, _, _, _, _)
RECURSIVE injectItems(_, _, _, _, _, _)
RECURSIVE injectNested(_, _, _, _, _, _)
RECURSIVE injectVerbs(_, _, _, _, _, _)
RECURSIVE injectPairs(_, _, _, _)
RECURSIVE injectPairs_provisionOnly(_, _, _, _)
RECURSIVE injectPairs_overwriteSalt(_, _, _, _)
RECURSIVE injectPairs_saltDefaultIgnored(_, _, _, _)

\* a payload and what is left of the stream Math.random() draws from
Injected(data, rnds) == [data |-> data, rnds |-> rnds]

\* data[salt] = SaltIdsHelper.generateSalt(options.saltLength)
generated(data, salt, options, rnds) ==
    setProp(data, salt, Num(generateSalt(options.saltLength, Head(rnds))))

\* the base's default is ignored
injectPairs_provisionOnly(data, saltFields, options, rnds) ==
    IF saltFields = <<>> THEN Injected(data, rnds)
    ELSE IF /\ getProp(data, Head(saltFields).base) # Undefined
            /\ getProp(data, Head(saltFields).salt) = Undefined
            /\ ~Head(saltFields).saltHasDefaultValue
    THEN injectPairs_provisionOnly(
             generated(data, Head(saltFields).salt, options, rnds),
             Tail(saltFields), options, Tail(rnds))
    ELSE injectPairs_provisionOnly(data, Tail(saltFields), options, rnds)

\* a salt the payload already holds is overwritten
injectPairs_overwriteSalt(data, saltFields, options, rnds) ==
    IF saltFields = <<>> THEN Injected(data, rnds)
    ELSE IF /\ \/ Head(saltFields).hasDefaultValue
               \/ getProp(data, Head(saltFields).base) # Undefined
            /\ ~Head(saltFields).saltHasDefaultValue
    THEN injectPairs_overwriteSalt(
             generated(data, Head(saltFields).salt, options, rnds),
             Tail(saltFields), options, Tail(rnds))
    ELSE injectPairs_overwriteSalt(data, Tail(saltFields), options, rnds)

\* the default of the salt field is ignored
injectPairs_saltDefaultIgnored(data, saltFields, options, rnds) ==
    IF saltFields = <<>> THEN Injected(data, rnds)
    ELSE IF /\ \/ Head(saltFields).hasDefaultValue
               \/ getProp(data, Head(saltFields).base) # Undefined
            /\ getProp(data, Head(saltFields).salt) = Undefined
    THEN injectPairs_saltDefaultIgnored(
             generated(data, Head(saltFields).salt, options, rnds),
             Tail(saltFields), options, Tail(rnds))
    ELSE injectPairs_saltDefaultIgnored(data, Tail(saltFields), options, rnds)

\* the loop over the pairs of the model; a generated salt takes the head of
\* the stream
injectPairs(data, saltFields, options, rnds) ==
    LET baseWillHaveValue(f) ==
            f.hasDefaultValue \/ getProp(data, f.base) # Undefined
        saltHasNoValue(f) == getProp(data, f.salt) = Undefined
        saltNeedsGeneration(f) == ~f.saltHasDefaultValue
    IN  IF saltFields = <<>> THEN Injected(data, rnds)
        ELSE IF /\ baseWillHaveValue(Head(saltFields))
                /\ saltHasNoValue(Head(saltFields))
                /\ saltNeedsGeneration(Head(saltFields))
        THEN injectPairs(generated(data, Head(saltFields).salt, options, rnds),
                         Tail(saltFields), options, Tail(rnds))
        ELSE injectPairs(data, Tail(saltFields), options, rnds)

\* the nested-write verbs the code looks at, with the key under the verb
\* that holds the payload ("" when the verb holds it itself)
NestedVerbs ==
    << [verb |-> "create", inner |-> ""],
       [verb |-> "createMany", inner |-> "data"],
       [verb |-> "connectOrCreate", inner |-> "create"],
       [verb |-> "upsert", inner |-> "create"] >>

injectVerb(val, v, targetModel, registry, options, rnds) ==
    LET \* val.verb, or val.verb.inner
        verbPayload(v1) ==
            IF v1.inner = "" THEN getProp(val, v1.verb)
            ELSE getProp(getProp(val, v1.verb), v1.inner)
        \* the payload is put back as the injection left it
        verbInjected(res) ==
            Injected(IF v.inner = "" THEN setProp(val, v.verb, res.data)
                     ELSE setProp(val, v.verb,
                                  setProp(getProp(val, v.verb), v.inner, res.data)),
                     res.rnds)
    IN  IF ~(truthy(getProp(val, v.verb)) /\ truthy(verbPayload(v)))
        THEN Injected(val, rnds)
        ELSE verbInjected(deepInjectSalt(verbPayload(v), targetModel, registry,
                                options, FALSE, rnds))

injectVerbs(val, verbs, targetModel, registry, options, rnds) ==
    LET \* the rest of the verbs, after one
        verbsRest(one, verbs1) ==
            IF verbs1 = <<>> THEN one
            ELSE injectVerbs(one.data, verbs1, targetModel, registry, options,
                             one.rnds)
    IN  IF verbs = <<>> THEN Injected(val, rnds)
        ELSE verbsRest(injectVerb(val, Head(verbs), targetModel, registry, options, rnds),
                 Tail(verbs))

\* the loop over Object.keys(data) that looks for nested writes; keys are
\* the keys of data that hold an object under a relation, the others being
\* passed over
injectNested(data, keys, modelName, registry, options, rnds) ==
    LET \* the verbs val holds; injectVerb passes over the others
        held(val) == SelectSeq(NestedVerbs, LAMBDA v : truthy(getProp(val, v.verb)))
        \* the rest of the keys, after the relation under one key
        nestedRest(key, res, keys1) ==
            IF keys1 = <<>> THEN Injected(setProp(data, key, res.data), res.rnds)
            ELSE injectNested(setProp(data, key, res.data), keys1, modelName,
                              registry, options, res.rnds)
    IN  IF keys = <<>> THEN Injected(data, rnds)
        ELSE nestedRest(Head(keys),
                        injectVerbs(getProp(data, Head(keys)),
                                    held(getProp(data, Head(keys))),
                                    getRelation(registry, modelName, Head(keys)).type,
                                    registry, options, rnds),
                        Tail(keys))

injectItems(items, modelName, registry, options, skipRootInjection, rnds) ==
    LET itemsRest(one, items1) ==
            LET itemsInjected(rest) ==
                    [items |-> <<one.data>> \o rest.items, rnds |-> rest.rnds]
            IN  itemsInjected(injectItems(items1, modelName, registry, options, skipRootInjection,
                                one.rnds))
    IN  IF items = <<>> THEN [items |-> <<>>, rnds |-> rnds]
        ELSE itemsRest(deepInjectSalt(Head(items), modelName, registry, options,
                                skipRootInjection, rnds),
                 Tail(items))

\* Pass B
deepInjectSalt(data, modelName, registry, options, skipRootInjection, rnds) ==
    LET arrayInjected(res) == Injected(Arr(res.items), res.rnds)
        \* typeof val === "object" && val !== null, and targetModel is set
        nestedWrite(key) ==
            /\ isObject(getProp(data, key))
            /\ getRelation(registry, modelName, key) # Undefined
            /\ getRelation(registry, modelName, key).type # ""
        afterRoot(root) ==
            injectNested(root.data, SelectSeq(objectKeys(data), nestedWrite),
                         modelName, registry, options, root.rnds)
    IN  IF ~truthy(data) \/ ~isObject(data) THEN Injected(data, rnds)
        ELSE IF modelName = "" THEN Injected(data, rnds)
        ELSE IF data.t = "array"
        THEN arrayInjected(injectItems(data.items, modelName, registry, options,
                                       skipRootInjection, rnds))
        ELSE afterRoot(IF skipRootInjection THEN Injected(data, rnds)
                       ELSE injectPairs(data, getSaltFields(registry, modelName),
                                        options, rnds))

RECURSIVE deepHijackResult(_, _, _, _)
RECURSIVE hijackItems(_, _, _, _)
RECURSIVE hijackKeys(_, _, _, _, _)

\* a record as the hijacker leaves it, and whether a getter threw on the way
Hijacked(data, threw) == [data |-> data, threw |-> threw]

\* the registry check of a key that ends with the suffix
shouldHijack(key, baseKey, modelName, registry) ==
    IF registry = Undefined THEN TRUE
    ELSE IF modelName = "" THEN FALSE
    ELSE \E i \in 1..Len(getSaltFields(registry, modelName)) :
             /\ getSaltFields(registry, modelName)[i].base = baseKey
             /\ getSaltFields(registry, modelName)[i].salt = key

\* { enumerable: false, value, writable: true, configurable: true }
Hidden(key, value) ==
    [key |-> key, value |-> value, enumerable |-> FALSE, get |-> NoGetter]

\* { enumerable: true, configurable: true, get() {...}, set(v) {} }
Accessor(baseKey, baseVal, saltVal, options) ==
    [key |-> baseKey, value |-> Undefined, enumerable |-> TRUE,
     get |-> [on |-> TRUE, baseVal |-> baseVal, saltVal |-> saltVal,
              saltLength |-> options.saltLength]]

\* the salt stays enumerable
hijackPair_saltVisible(data, key, saltVal, baseKey, baseVal, should, options) ==
    IF baseVal = Thrown THEN Hijacked(data, TRUE)
    ELSE IF should /\ saltVal.t = "number" /\ baseVal.t = "number"
    THEN Hijacked(defineProperty(data, baseKey,
                      Accessor(baseKey, baseVal.n, saltVal.n, options)),
                  FALSE)
    ELSE Hijacked(data, FALSE)

\* a null base leaves the salt as it is
hijackPair_noNullBranch(data, key, saltVal, baseKey, baseVal, should, options) ==
    IF baseVal = Thrown THEN Hijacked(data, TRUE)
    ELSE IF should /\ saltVal.t = "number" /\ baseVal.t = "number"
    THEN Hijacked(
             defineProperty(defineProperty(data, key, Hidden(key, saltVal)),
                            baseKey,
                            Accessor(baseKey, baseVal.n, saltVal.n, options)),
             FALSE)
    ELSE Hijacked(data, FALSE)

\* a key that ends with the suffix: hide the salt, hijack the base
hijackPair(data, key, saltVal, baseKey, baseVal, should, options) ==
    IF baseVal = Thrown THEN Hijacked(data, TRUE)
    ELSE IF should /\ saltVal.t = "number" /\ baseVal.t = "number"
    THEN Hijacked(
             defineProperty(defineProperty(data, key, Hidden(key, saltVal)),
                            baseKey,
                            Accessor(baseKey, baseVal.n, saltVal.n, options)),
             FALSE)
    ELSE IF should /\ baseVal = Null
    THEN Hijacked(defineProperty(data, key, Hidden(key, Null)), FALSE)
    ELSE Hijacked(data, FALSE)

\* the loop over the keys Object.keys(data) gave before the loop
hijackKeys(data, keys, options, modelName, registry) ==
    LET \* key.slice(0, -options.saltSuffix.length)
        baseKeyOf(key) == SubSeq(key, 1, Len(key) - Len(options.saltSuffix))
        hijackSuffixed(key, baseKey) ==
            hijackPair(data, key, getProp(data, key), baseKey, getProp(data, baseKey),
                       shouldHijack(key, baseKey, modelName, registry), options)
        afterPair(pair, key, keys1) ==
            LET \* the second half of the loop body: the recursion into data[key]
                hijackVal(data1, val) ==
                    LET \* the model the value under a key belongs to
                        nextModel(relation) ==
                            IF relation # Undefined THEN relation.type ELSE ""
                        \* the rest of the keys, after the value under one key
                        hijackRest(res) ==
                            IF res.threw THEN Hijacked(setProp(data1, key, res.data), TRUE)
                            ELSE hijackKeys(setProp(data1, key, res.data), keys1, options, modelName,
                                            registry)
                    IN  IF val = Thrown THEN Hijacked(data1, TRUE)
                        ELSE IF isObject(val)
                        THEN hijackRest(deepHijackResult(val, options,
                                     IF registry # Undefined /\ modelName # ""
                                     THEN nextModel(getRelation(registry, modelName, key))
                                     ELSE "",
                                     registry))
                        ELSE hijackKeys(data1, keys1, options, modelName, registry)
            IN  IF pair.threw THEN pair
                ELSE hijackVal(pair.data, getProp(pair.data, key))
    IN  IF keys = <<>> THEN Hijacked(data, FALSE)
        ELSE afterPair(IF endsWith(Head(keys), options.saltSuffix)
                       THEN hijackSuffixed(Head(keys),
                                           baseKeyOf(Head(keys)))
                       ELSE Hijacked(data, FALSE),
                       Head(keys), Tail(keys))

hijackItems(items, options, modelName, registry) ==
    LET afterItem(one, items1) ==
            LET itemsHijacked(rest) ==
                    [items |-> <<one.data>> \o rest.items, threw |-> rest.threw]
            IN  IF one.threw THEN [items |-> <<one.data>> \o items1, threw |-> TRUE]
                ELSE itemsHijacked(hijackItems(items1, options, modelName, registry))
    IN  IF items = <<>> THEN [items |-> <<>>, threw |-> FALSE]
        ELSE afterItem(deepHijackResult(Head(items), options, modelName, registry),
                       Tail(items))

\* the result hijacker
deepHijackResult(data, options, modelName, registry) ==
    LET arrayHijacked(res) == Hijacked(Arr(res.items), res.threw)
    IN  IF ~truthy(data) \/ ~isObject(data) THEN Hijacked(data, FALSE)
        ELSE IF data.t = "array"
        THEN arrayHijacked(hijackItems(data.items, options, modelName, registry))
        ELSE hijackKeys(data, objectKeys(data), options, modelName, registry)

(***************************************************************************)
(* saltIdsSql (src/src/raw.ts).  A Sql fragment is the tree of the         *)
(* predicate it spells; a builder returns a fragment or throws.            *)
(***************************************************************************)
ensureNumber(x) == IF x.t # "number" THEN Thrown ELSE x

decodeSaltId(publicId, saltLength) ==
    IF ensureNumber(publicId) = Thrown THEN Thrown
    ELSE decode(publicId.n, saltLength)

\* FALSE, the one part, or (p1 OR p2 OR ...)
combineOr(parts) ==
    LET RECURSIVE acc(_)
        acc(i) == IF i = 1 THEN parts[1]
                  ELSE [t |-> "or", l |-> acc(i - 1), r |-> parts[i]]
    IN  IF Len(parts) = 0 THEN [t |-> "false"]
        ELSE IF Len(parts) = 1 THEN parts[1]
        ELSE acc(Len(parts))

\* col(base): the column of the base and the column of its salt
col(base, saltSuffix) == [baseKey |-> base, saltKey |-> base \o saltSuffix]

\* the disjunction stands in for the equality
where_eq_either(c, publicId, saltLength) ==
    LET eqDecoded(decoded) ==
            IF decoded = Thrown THEN Thrown
            ELSE [t |-> "or",
                  l |-> [t |-> "cmp", col |-> c.baseKey, op |-> "=",
                         n |-> decoded.id],
                  r |-> [t |-> "cmp", col |-> c.saltKey, op |-> "=",
                         n |-> decoded.salt]]
    IN  eqDecoded(decodeSaltId(publicId, saltLength))

\* (base = id AND salt = salt)
where_eq(c, publicId, saltLength) ==
    LET eqDecoded(decoded) ==
            IF decoded = Thrown THEN Thrown
            ELSE [t |-> "and",
                  l |-> [t |-> "cmp", col |-> c.baseKey, op |-> "=",
                         n |-> decoded.id],
                  r |-> [t |-> "cmp", col |-> c.saltKey, op |-> "=",
                         n |-> decoded.salt]]
    IN  eqDecoded(decodeSaltId(publicId, saltLength))

\* (NOT inner)
where_ne(c, publicId, saltLength) ==
    LET neOf(inner) ==
            IF inner = Thrown THEN Thrown ELSE [t |-> "not", of |-> inner]
    IN  neOf(where_eq(c, publicId, saltLength))

\* publicIds.map((pid) => where.eq(c, pid)), combined
where_in(c, publicIds, saltLength) ==
    LET inOf(parts) ==
            IF \E i \in 1..Len(parts) : parts[i] = Thrown THEN Thrown
            ELSE combineOr(parts)
    IN  IF publicIds.t # "array" THEN Thrown
        ELSE inOf([i \in 1..Len(publicIds.items) |->
                      where_eq(c, publicIds.items[i], saltLength)])

\* gtRealId, ltRealId, betweenRealId and the builders that decode first:
\* gtFromSaltId, ltFromSaltId, betweenFromSaltIds
where_range(fn, c, args, saltLength) ==
    LET realId(x) ==
            IF fn \in {"gtFromSaltId", "ltFromSaltId", "betweenFromSaltIds"}
            THEN IF decodeSaltId(x, saltLength) = Thrown THEN Thrown
                 ELSE Num(decodeSaltId(x, saltLength).id)
            ELSE ensureNumber(x)
        compared(op, x) ==
            IF x = Thrown THEN Thrown
            ELSE [t |-> "cmp", col |-> c.baseKey, op |-> op, n |-> x.n]
        between(a, b) ==
            IF a = Thrown \/ b = Thrown THEN Thrown
            ELSE [t |-> "between", col |-> c.baseKey,
                  lo |-> IF a.n < b.n THEN a.n ELSE b.n,
                  hi |-> IF a.n < b.n THEN b.n ELSE a.n]
    IN  CASE fn \in {"gtRealId", "gtFromSaltId"} -> compared(">", realId(args[1]))
          [] fn \in {"ltRealId", "ltFromSaltId"} -> compared("<", realId(args[1]))
          [] fn \in {"betweenRealId", "betweenFromSaltIds"} ->
                between(realId(args[1]), realId(args[2]))

RECURSIVE hijackObject(_, _, _)
\* the pairs of fields whose two keys the row holds: hide the salt, hijack
\* the base
hijackObject(obj, fields, saltLength) ==
    LET hijackField(baseKey, saltKey, saltVal, baseVal) ==
            IF saltVal = Thrown \/ baseVal = Thrown THEN Hijacked(obj, TRUE)
            ELSE IF saltVal.t = "number" /\ baseVal.t = "number"
            THEN Hijacked(
                     defineProperty(
                         defineProperty(obj, saltKey, Hidden(saltKey, saltVal)),
                         baseKey,
                         Accessor(baseKey, baseVal.n, saltVal.n,
                                  [saltLength |-> saltLength])),
                     FALSE)
            ELSE IF baseVal = Null
            THEN Hijacked(defineProperty(obj, saltKey, Hidden(saltKey, saltVal)),
                          FALSE)
            ELSE Hijacked(obj, FALSE)
        hijackOne(f) ==
            IF ~hasOwn(obj, f.saltKey) \/ ~hasOwn(obj, f.baseKey)
            THEN Hijacked(obj, FALSE)
            ELSE hijackField(f.baseKey, f.saltKey, getProp(obj, f.saltKey),
                             getProp(obj, f.baseKey))
        afterOne(one) ==
            IF one.threw THEN one
            ELSE hijackObject(one.data, Tail(fields), saltLength)
    IN  IF ~truthy(obj) \/ ~isObject(obj) \/ fields = <<>>
        THEN Hijacked(obj, FALSE)
        ELSE afterOne(hijackOne(Head(fields)))

\* rows, or the one row, with hijackObject applied to each; the pairs are
\* the ones given or, in a scan, the ones read off the keys of the row
hijackRows(rows, fieldPairs, scan, saltLength, saltSuffix) ==
    LET baseKeyOf(key) == SubSeq(key, 1, Len(key) - Len(saltSuffix))
        pairsOf(keys) ==
            [i \in 1..Len(keys) |->
                [baseKey |-> baseKeyOf(keys[i]), saltKey |-> keys[i]]]
        fieldsOf(row) ==
            IF ~scan THEN fieldPairs
            ELSE IF ~truthy(row) \/ ~isObject(row) \/ row.t = "array" THEN <<>>
            ELSE pairsOf(SelectSeq(objectKeys(row),
                             LAMBDA key : /\ endsWith(key, saltSuffix)
                                          /\ baseKeyOf(key) # ""
                                          /\ hasOwn(row, baseKeyOf(key))))
        RECURSIVE each(_)
        each(items) ==
            LET afterItem(one, items1) ==
                    LET itemsHijacked(rest) ==
                            [items |-> <<one.data>> \o rest.items,
                             threw |-> rest.threw]
                    IN  IF one.threw
                        THEN [items |-> <<one.data>> \o items1, threw |-> TRUE]
                        ELSE itemsHijacked(each(items1))
            IN  IF items = <<>> THEN [items |-> <<>>, threw |-> FALSE]
                ELSE afterItem(hijackObject(Head(items), fieldsOf(Head(items)),
                                            saltLength),
                               Tail(items))
        arrayHijacked(res) == Hijacked(Arr(res.items), res.threw)
    IN  IF rows.t = "array" THEN arrayHijacked(each(rows.items))
        ELSE hijackObject(rows, fieldsOf(rows), saltLength)

\* result({ fields })(rows)
resultOf(fields, rows, saltLength, saltSuffix) ==
    hijackRows(rows,
               [i \in 1..Len(fields) |->
                   [baseKey |-> fields[i], saltKey |-> fields[i] \o saltSuffix]],
               FALSE, saltLength, saltSuffix)

\* resultScan(rows)
resultScan(rows, saltLength, saltSuffix) ==
    hijackRows(rows, <<>>, TRUE, saltLength, saltSuffix)

\* the fragment in a statement's WHERE, as the database evaluates it on a
\* row: a comparison with NULL is unknown
RECURSIVE sqlHolds(_, _)
sqlHolds(row, sql) ==
    LET truth(b) == IF b THEN "T" ELSE "F"
        column == row[sql.col]
        and3(a, b) == IF "F" \in {a, b} THEN "F"
                      ELSE IF "U" \in {a, b} THEN "U" ELSE "T"
        or3(a, b) == IF "T" \in {a, b} THEN "T"
                     ELSE IF "U" \in {a, b} THEN "U" ELSE "F"
    IN  CASE sql.t = "false" -> "F"
          [] sql.t = "cmp" ->
                IF column.t # "number" THEN "U"
                ELSE (CASE sql.op = "=" -> truth(column.n = sql.n)
                        [] sql.op = ">" -> truth(column.n > sql.n)
                        [] sql.op = "<" -> truth(column.n < sql.n))
          [] sql.t = "between" ->
                IF column.t # "number" THEN "U"
                ELSE truth(sql.lo <= column.n /\ column.n <= sql.hi)
          [] sql.t = "and" -> and3(sqlHolds(row, sql.l), sqlHolds(row, sql.r))
          [] sql.t = "or" -> or3(sqlHolds(row, sql.l), sqlHolds(row, sql.r))
          [] sql.t = "not" ->
                CASE sqlHolds(row, sql.of) = "T" -> "F"
                  [] sqlHolds(row, sql.of) = "F" -> "T"
                  [] OTHER -> "U"

(***************************************************************************)
(* The wrapped execution, query(args): the storage engine behind the       *)
(* client.  A table is the sequence of its rows in insertion order; a row  *)
(* maps each column to its value.                                          *)
(***************************************************************************)

modelFields(schema, model) ==
    LET modelNamed(models) ==
            models[CHOOSE i \in 1..Len(models) : models[i].name = model]
    IN  modelNamed(schema.datamodel.models).fields

RECURSIVE maxId(_, _)
maxId(rows, idName) ==
    IF rows = <<>> THEN 0
    ELSE IF Head(rows)[idName].n > maxId(Tail(rows), idName)
    THEN Head(rows)[idName].n
    ELSE maxId(Tail(rows), idName)

newRow(schema, model, rows, data) ==
    LET scalarFields(schema1) ==
            SelectSeq(modelFields(schema1, model), LAMBDA f : f.kind = "scalar")
        rowOf(fields) ==
            LET fieldNamed(name) ==
                    fields[CHOOSE i \in 1..Len(fields) : fields[i].name = name]
                \* the value an insert stores in a column: the payload's value, the next
                \* autoincrement id, the storage default of the column, NULL otherwise
                columnValue(f, given) ==
                    IF given # Undefined THEN given
                    ELSE IF f.default = Autoincrement THEN Num(maxId(rows, f.name) + 1)
                    ELSE IF f.hasDefaultValue THEN f.default
                    ELSE Null
            IN  [name \in {fields[i].name : i \in 1..Len(fields)} |->
                    columnValue(fieldNamed(name), getProp(data, name))]
    IN  rowOf(scalarFields(schema))

RECURSIVE project(_, _, _, _, _)
RECURSIVE projectFields(_, _, _, _, _, _)

\* the record returned for a row: the chosen fields in schema order
projectFields(schema, db, model, row, args, fields) ==
    LET \* whether args asks for the field, and with which nested args
        chosenAs(f, select, include) ==
            IF select.t = "object" THEN getProp(select, f.name)
            ELSE IF f.kind = "scalar" THEN True
            ELSE getProp(include, f.name)
        projectField(f, chosen) ==
            LET \* the rows a relation field of a row leads to
                relatedRows(field) ==
                    IF model = "Post" /\ field = "author"
                    THEN SelectSeq(db["User"], LAMBDA u : u["id"] = row["authorId"])
                    ELSE IF model = "User" /\ field = "posts"
                    THEN SelectSeq(db["Post"], LAMBDA p : p["authorId"] = row["id"])
                    ELSE <<>>
                projectRelated(rows) ==
                    LET \* what a relation field reads: a list of records, one record, or null
                        relationValue(records) ==
                            IF f.isList THEN Arr(records)
                            ELSE IF records = <<>> THEN Null
                            ELSE records[1]
                    IN  relationValue([i \in 1..Len(rows) |->
                                             project(schema, db, f.type, rows[i], chosen)])
            IN  IF ~truthy(chosen) THEN <<>>
                ELSE IF f.kind = "scalar" THEN <<Prop(f.name, row[f.name])>>
                ELSE <<Prop(f.name,
                            projectRelated(relatedRows(f.name)))>>
    IN  IF fields = <<>> THEN <<>>
        ELSE projectField(Head(fields),
                          chosenAs(Head(fields), getProp(args, "select"),
                                   getProp(args, "include")))
                 \o projectFields(schema, db, model, row, args, Tail(fields))

project(schema, db, model, row, args) ==
    Obj(projectFields(schema, db, model, row, args, modelFields(schema, model)))

whereRows(rows, where) ==
    LET \* a where made of column: value equalities
        matches(row) ==
            \A i \in 1..Len(where.props) :
                /\ where.props[i].key \in DOMAIN row
                /\ row[where.props[i].key] = where.props[i].value
    IN  IF where.t = "object" THEN SelectSeq(rows, LAMBDA r : matches(r))
        ELSE rows

\* what query(args) rejects with
QueryError == [t |-> "error", message |-> "query failed"]

\* query(args): the storage after the operation, and what it resolves to or
\* rejects with
query(schema, db, model, operation, args) ==
    LET \* the table with the row appended, and the record of the row
        inserted(row) ==
            [db |-> [db EXCEPT ![model] = Append(@, row)],
             result |-> project(schema, [db EXCEPT ![model] = Append(@, row)], model,
                                row, args)]
        firstOrNull(rows) ==
            IF rows = <<>> THEN Null ELSE project(schema, db, model, rows[1], args)
        allOf(rows) ==
            Arr([i \in 1..Len(rows) |-> project(schema, db, model, rows[i], args)])
        \* the rows of a createMany appended in turn, and their count
        insertedAll(items) ==
            LET RECURSIVE appended(_, _)
                appended(rows, rest) ==
                    IF rest = <<>> THEN rows
                    ELSE appended(Append(rows, newRow(schema, model, rows, Head(rest))),
                                  Tail(rest))
            IN  [db |-> [db EXCEPT ![model] = appended(@, items)],
                 result |-> Obj(<<Prop("count", Num(Len(items)))>>)]
        \* the first row the where selects takes the values of the payload
        updated(data) ==
            LET first ==
                    CHOOSE i \in 1..Len(db[model]) :
                        /\ whereRows(<<db[model][i]>>, getProp(args, "where")) # <<>>
                        /\ \A j \in 1..(i - 1) :
                               whereRows(<<db[model][j]>>, getProp(args, "where")) = <<>>
                row == [c \in DOMAIN db[model][first] |->
                           IF getProp(data, c) # Undefined THEN getProp(data, c)
                           ELSE db[model][first][c]]
            IN  [db |-> [db EXCEPT ![model][first] = row],
                 result |-> project(schema, [db EXCEPT ![model][first] = row],
                                    model, row, args)]
        found == whereRows(db[model], getProp(args, "where")) # <<>>
    IN  CASE operation = "create" ->
                inserted(newRow(schema, model, db[model], getProp(args, "data")))
          [] operation = "createMany" ->
                insertedAll(IF getProp(args, "data").t = "array"
                            THEN getProp(args, "data").items
                            ELSE <<getProp(args, "data")>>)
          [] operation = "update" ->
                IF found THEN updated(getProp(args, "data"))
                ELSE [db |-> db, result |-> QueryError]
          [] operation = "upsert" ->
                IF found THEN updated(getProp(args, "update"))
                ELSE inserted(newRow(schema, model, db[model], getProp(args, "create")))
          [] operation = "findUnique" ->
                [db |-> db,
                 result |-> firstOrNull(whereRows(db[model], getProp(args, "where")))]
          [] operation = "findMany" ->
                [db |-> db,
                 result |-> allOf(whereRows(db[model], getProp(args, "where")))]

(***************************************************************************)
(* The filters of the wrapped execution, as the storage evaluates them: a  *)
(* comparison with a NULL column is unknown ("U"), and a row is selected   *)
(* when its filter is true ("T").                                          *)
(***************************************************************************)
RECURSIVE whereHolds(_, _)
RECURSIVE filterHolds(_, _)

\* a column filter {equals, in, notIn, lt, lte, gt, gte, not}: its
\* operators hold together
filterHolds(cell, filter) ==
    LET and3(S) == IF "F" \in S THEN "F" ELSE IF "U" \in S THEN "U" ELSE "T"
        or3(S) == IF "T" \in S THEN "T" ELSE IF "U" \in S THEN "U" ELSE "F"
        not3(v) == IF v = "T" THEN "F" ELSE IF v = "F" THEN "T" ELSE "U"
        truth(b) == IF b THEN "T" ELSE "F"
        cmp3(op, v) ==
            IF cell.t = "null" \/ v.t = "null" THEN "U"
            ELSE IF op = "equals" THEN truth(cell = v)
            ELSE IF cell.t # "number" \/ v.t # "number" THEN "F"
            ELSE CASE op = "lt" -> truth(cell.n < v.n)
                   [] op = "lte" -> truth(cell.n <= v.n)
                   [] op = "gt" -> truth(cell.n > v.n)
                   [] op = "gte" -> truth(cell.n >= v.n)
        in3(list) ==
            or3({cmp3("equals", list.items[i]) : i \in 1..Len(list.items)})
        opHolds(op, operand) ==
            CASE op \in {"equals", "lt", "lte", "gt", "gte"} -> cmp3(op, operand)
              [] op = "in" -> in3(operand)
              [] op = "notIn" -> not3(in3(operand))
              [] op = "not" ->
                    IF operand.t = "object"
                    THEN not3(filterHolds(cell, operand))
                    ELSE not3(cmp3("equals", operand))
    IN  and3({opHolds(filter.props[i].key, filter.props[i].value) :
                 i \in 1..Len(filter.props)})

\* a where: its keys hold together; AND, OR and NOT combine wheres
whereHolds(row, where) ==
    LET and3(S) == IF "F" \in S THEN "F" ELSE IF "U" \in S THEN "U" ELSE "T"
        or3(S) == IF "T" \in S THEN "T" ELSE IF "U" \in S THEN "U" ELSE "F"
        not3(v) == IF v = "T" THEN "F" ELSE IF v = "F" THEN "T" ELSE "U"
        each(val) ==
            IF val.t = "array"
            THEN {whereHolds(row, val.items[i]) : i \in 1..Len(val.items)}
            ELSE {whereHolds(row, val)}
        keyHolds(key, val) ==
            CASE key = "AND" -> and3(each(val))
              [] key = "OR" -> or3(each(val))
              [] key = "NOT" -> and3({not3(v) : v \in each(val)})
              [] OTHER ->
                    IF val.t = "object" THEN filterHolds(row[key], val)
                    ELSE filterHolds(row[key], Obj(<<Prop("equals", val)>>))
    IN  IF where.t # "object" THEN "T"
        ELSE and3({keyHolds(where.props[i].key, where.props[i].value) :
                      i \in 1..Len(where.props)})

(***************************************************************************)
(* saltIdsExtension (src/src/index.ts): the options of the test suite, the *)
(* descriptor lookup and the $allOperations hook.                          *)
(***************************************************************************)
config ==
    [saltLength |-> SaltLength, saltSuffix |-> "Salt", rawResultHijack |-> TRUE]

\* a client generated from a schema; carrier names the internal field, if
\* any, under which the client exposes its datamodel
Client(schema, carrier) ==
    [schema |-> schema,
     _dmmf |-> IF carrier = "_dmmf" THEN schema ELSE Undefined,
     _engineConfig |-> IF carrier = "_engineConfig"
                       THEN [t |-> "object", dmmf |-> schema] ELSE Undefined,
     _runtimeDataModel |-> IF carrier = "_runtimeDataModel"
                           THEN [t |-> "object",
                                 models |-> schema.datamodel.models]
                           ELSE Undefined]

\* an extraction that takes the datamodel the client was generated from
extractDmmfFromClient_generated(c) == c.schema

extractDmmfFromClient(c) ==
    LET \* Object.entries(models).map(([name, model]) => ({name, fields, ...}))
        modelEntries(models) ==
            [i \in 1..Len(models) |->
                [name |-> models[i].name, fields |-> models[i].fields]]
    IN  IF c._dmmf # Undefined THEN c._dmmf
        ELSE IF c._engineConfig # Undefined THEN c._engineConfig.dmmf
        ELSE IF c._runtimeDataModel # Undefined
        THEN [t |-> "object",
              datamodel |-> [models |-> modelEntries(c._runtimeDataModel.models)]]
        ELSE Null

RECURSIVE extractAndRemoveSalts(_, _, _)
RECURSIVE extractFromKeys(_, _, _, _)
RECURSIVE extractFromItems(_, _, _)

\* a where as the extraction leaves it, and the salts taken out of it
Extracted(obj, expectedSalts) ==
    [obj |-> obj, expectedSalts |-> expectedSalts]

extractFromKeys(obj, keys, saltFields, expectedSalts) ==
    LET \* the loop body: a salt key moves to expectedSalts
        extractKey(key, val, keys1) ==
            LET isSaltKey(saltFields1) ==
                    \E i \in 1..Len(saltFields1) : saltFields1[i].salt = key
                \* the rest of the keys, after the value under one key
                extractRest(res) ==
                    extractFromKeys(setProp(obj, key, res.obj), keys1, saltFields,
                                    res.expectedSalts)
            IN  IF isSaltKey(saltFields)
                THEN extractFromKeys(deleteProp(obj, key), keys1, saltFields,
                                     setProp(expectedSalts, key, val))
                ELSE IF isObject(val)
                THEN extractRest(extractAndRemoveSalts(val, saltFields, expectedSalts))
                ELSE extractFromKeys(obj, keys1, saltFields, expectedSalts)
    IN  IF keys = <<>> THEN Extracted(obj, expectedSalts)
        ELSE extractKey(Head(keys), getProp(obj, Head(keys)), Tail(keys))

\* the same loop over the indices of an array
extractFromItems(items, saltFields, expectedSalts) ==
    LET itemsAfter(one, items1) ==
            LET itemsExtracted(rest) ==
                    Extracted(<<one.obj>> \o rest.obj, rest.expectedSalts)
            IN  itemsExtracted(extractFromItems(items1, saltFields, one.expectedSalts))
    IN  IF items = <<>> THEN Extracted(<<>>, expectedSalts)
        ELSE itemsAfter(extractAndRemoveSalts(Head(items), saltFields, expectedSalts),
                 Tail(items))

extractAndRemoveSalts(obj, saltFields, expectedSalts) ==
    LET arrayExtracted(res) == Extracted(Arr(res.obj), res.expectedSalts)
    IN  IF ~truthy(obj) \/ ~isObject(obj) THEN Extracted(obj, expectedSalts)
        ELSE IF obj.t = "array"
        THEN arrayExtracted(extractFromItems(obj.items, saltFields, expectedSalts))
        ELSE extractFromKeys(obj, objectKeys(obj), saltFields, expectedSalts)

\* args.select[key] = true for every expected salt
RECURSIVE selectSalts(_, _)
selectSalts(select, keys) ==
    IF keys = <<>> THEN select
    ELSE selectSalts(setProp(select, Head(keys), True), Tail(keys))

\* if (args[key]) deepInjectSalt(args[key], model, registry, config, skip)
injectPayload(args, key, model, reg, skipRootInjection, rnds) ==
    LET \* args[key] is put back as the injection left it
        putBack(res) == Injected(setProp(args, key, res.data), res.rnds)
    IN  IF truthy(getProp(args, key))
        THEN putBack(deepInjectSalt(getProp(args, key), model, reg, config,
                                    skipRootInjection, rnds))
        ELSE Injected(args, rnds)

\* the root of an update payload is injected like the root of a create
injectForOperation_updateAsCreate(operation, args, model, reg, rnds) ==
    IF operation \in {"create", "createMany", "update", "updateMany"}
    THEN injectPayload(args, "data", model, reg, FALSE, rnds).data
    ELSE IF operation = "upsert"
    THEN injectPayload(injectPayload(args, "create", model, reg, FALSE, rnds).data,
                       "update", model, reg, FALSE,
                       injectPayload(args, "create", model, reg, FALSE, rnds).rnds).data
    ELSE args

\* Pass B as the operation dispatches it
injectForOperation(operation, args, model, reg, rnds) ==
    LET \* the update branch of an upsert, after its create branch
        upsertUpdate(created) ==
            injectPayload(created.data, "update", model, reg, TRUE, created.rnds)
    IN  IF operation \in {"create", "createMany"}
        THEN injectPayload(args, "data", model, reg, FALSE, rnds).data
        ELSE IF operation \in {"update", "updateMany"}
        THEN injectPayload(args, "data", model, reg, TRUE, rnds).data
        ELSE IF operation = "upsert"
        THEN upsertUpdate(injectPayload(args, "create", model, reg, FALSE, rnds)).data
        ELSE args

\* what $allOperations hands to query(args), and what it keeps for after
Prepared(args, didTransformId, expectedSalts) ==
    [args |-> args, didTransformId |-> didTransformId,
     expectedSalts |-> expectedSalts]

\* the findUnique downgrade before the query: the salts leave args.where
downgrade(args, model, reg) ==
    LET whereExtracted(ext) ==
            LET \* under a select, the expected salts are selected
                selectExpected(args1, keys) ==
                    IF truthy(getProp(args1, "select")) /\ Len(keys) > 0
                    THEN setProp(args1, "select", selectSalts(getProp(args1, "select"), keys))
                    ELSE args1
            IN  Prepared(selectExpected(setProp(args, "where", ext.obj),
                                        objectKeys(ext.expectedSalts)),
                         TRUE, ext.expectedSalts)
    IN  IF truthy(getProp(args, "where"))
        THEN whereExtracted(extractAndRemoveSalts(getProp(args, "where"),
                                       getSaltFields(reg, model), Obj(<<>>)))
        ELSE Prepared(args, TRUE, Obj(<<>>))

verifySalts_unchecked(result, expectedSalts) == result

\* the salt check of the downgrade after the query
verifySalts(result, expectedSalts) ==
    IF truthy(result) /\ \E i \in 1..Len(expectedSalts.props) :
           getProp(result, expectedSalts.props[i].key)
               # expectedSalts.props[i].value
    THEN Null
    ELSE result

\* Pass A and the downgrade without Pass B between them
prepare_noPassB(model, operation, args, reg, rnds) ==
    LET afterPassA(passA) ==
            IF operation = "findUnique" /\ passA.didTransformId
            THEN downgrade(passA.obj, model, reg)
            ELSE Prepared(passA.obj, passA.didTransformId, Obj(<<>>))
    IN  afterPassA(IF truthy(args)
                   THEN deepTransformInput(args, model, reg, config)
                   ELSE Same(args))

\* Pass A, Pass B and the downgrade, in that order
prepare(model, operation, args, reg, rnds) ==
    LET afterPassA(passA) ==
            LET afterPassB(args1, didTransformId) ==
                    IF operation = "findUnique" /\ didTransformId
                    THEN downgrade(args1, model, reg)
                    ELSE Prepared(args1, didTransformId, Obj(<<>>))
            IN  afterPassB(injectForOperation(operation, passA.obj, model, reg, rnds),
                           passA.didTransformId)
    IN  afterPassA(IF truthy(args)
                   THEN deepTransformInput(args, model, reg, config)
                   ELSE Same(args))

Idle ==
    [pc |-> "idle", model |-> "", operation |-> "", orig |-> Undefined,
     args |-> Undefined, didTransformId |-> FALSE,
     expectedSalts |-> Obj(<<>>), raw |-> Undefined, result |-> Undefined]

\* dmmf ?? extractDmmfFromClient(client)
dmmf1 ==
    IF descriptor.t \notin {"undefined", "null"} THEN descriptor
    ELSE extractDmmfFromClient(client)

\* $allOperations up to its await of query(args)
Begin(model, operation, args, rnds) ==
    LET \* the call as it waits for query(args)
        awaiting(prepared) ==
            [Idle EXCEPT !.pc = "query", !.model = model, !.operation = operation,
                         !.orig = args, !.args = prepared.args,
                         !.didTransformId = prepared.didTransformId,
                         !.expectedSalts = prepared.expectedSalts]
        \* the call that threw before it reached query(args)
        rejected(model1) ==
            [Idle EXCEPT !.pc = "threw", !.model = model1, !.operation = operation,
                         !.orig = args, !.args = args]
    IN  /\ call.pc \in {"idle", "returned", "threw"}
        /\ IF ~modelRegistry.initialized /\ ~truthy(dmmf1)
           THEN /\ call' = rejected(model)
                /\ UNCHANGED modelRegistry
           ELSE IF initThrows(modelRegistry, dmmf1)
           THEN /\ call' = rejected(model)
                /\ modelRegistry' = init(modelRegistry, dmmf1, config.saltSuffix)
           ELSE /\ modelRegistry' = init(modelRegistry, dmmf1, config.saltSuffix)
                /\ call' = awaiting(prepare(model, operation, args,
                                   init(modelRegistry, dmmf1, config.saltSuffix),
                                   rnds))
        /\ UNCHANGED <<descriptor, client, tables, helper, hj, direct>>

\* the wrapped execution runs
Query ==
    LET \* the storage and the call after query(args) resolved
        resolved(res) ==
            /\ tables' = res.db
            /\ call' = [call EXCEPT !.pc = "resume", !.raw = res.result]
    IN  /\ call.pc = "query"
        /\ query(client.schema, tables, call.model, call.operation,
                 call.args).result # QueryError
        /\ resolved(query(client.schema, tables, call.model, call.operation,
                          call.args))
        /\ UNCHANGED <<descriptor, client, modelRegistry, helper, hj, direct>>

\* the result after the salt check of a downgraded findUnique
checkedResult ==
    IF call.operation = "findUnique" /\ call.didTransformId
    THEN verifySalts(call.raw, call.expectedSalts)
    ELSE call.raw

\* $allOperations after its await: the salt check, the hijack, the return
Resume ==
    LET \* if (result) deepHijackResult(result, config, model, registry)
        hijackResult(result) ==
            IF truthy(result)
            THEN deepHijackResult(result, config, call.model, modelRegistry)
            ELSE Hijacked(result, FALSE)
        returning(hijacked) ==
            [call EXCEPT !.pc = IF hijacked.threw THEN "threw" ELSE "returned",
                         !.result = hijacked.data]
    IN  /\ call.pc = "resume"
        /\ call' = returning(hijackResult(checkedResult))
        /\ UNCHANGED <<descriptor, client, modelRegistry, tables, helper, hj, direct>>

(***************************************************************************)
(* The callers of the extended client: the requests they make.             *)
(***************************************************************************)
EmptyDb == [User |-> <<>>, Post |-> <<>>]

\* a row written before the extension was installed: it has no salt
LegacyUser == [id |-> Num(1), idSalt |-> Null, name |-> Str("legacy")]

\* the draws a request may consume: the least one and a middle one
Draws == {0, RandDen \div 2}

\* a salt of SaltLength digits that no draw of Draws generates
ForgedSalt == generateSalt(SaltLength, RandDen - 1)

\* the ids a caller may pass for the rows of a table: the real id, the
\* public id, and a public id forged with another salt
idsOf(rows, base, salt) ==
    UNION {
        {rows[i][base].n, encode(rows[i][base].n, ForgedSalt, SaltLength).n}
            \cup (IF rows[i][salt].t = "number"
                     /\ encode(rows[i][base].n, rows[i][salt].n,
                               SaltLength).t = "num"
                  THEN {encode(rows[i][base].n, rows[i][salt].n, SaltLength).n}
                  ELSE {})
        : i \in 1..Len(rows)}

CreateRequests ==
    IF Len(tables["User"]) + Len(tables["Post"]) >= MaxRows THEN {}
    ELSE {[model |-> "User", operation |-> "create",
           args |-> Obj(<<Prop("data", Obj(<<Prop("name", Str("n"))>>))>>)]}
         \cup
         {[model |-> "Post", operation |-> "create",
           args |-> Obj(<<Prop("data", data)>>)] :
             data \in {Obj(<<Prop("title", Str("t"))>>)} \cup
                      {Obj(<<Prop("title", Str("t")),
                             Prop("authorId", Num(v))>>) :
                          v \in idsOf(tables["User"], "id", "idSalt")}}

FindRequests ==
    LET withOption(args, key, options) ==
            {args} \cup {setProp(args, key, o) : o \in options}
    IN  {[model |-> "User", operation |-> "findUnique", args |-> args] :
            args \in UNION {
                withOption(Obj(<<Prop("where", Obj(<<Prop("id", Num(v))>>))>>),
                           "select",
                           {Obj(<<Prop("name", True)>>), Obj(<<Prop("id", True)>>)})
                : v \in idsOf(tables["User"], "id", "idSalt")}}
        \cup
        {[model |-> "Post", operation |-> "findUnique", args |-> args] :
            args \in UNION {
                withOption(Obj(<<Prop("where", Obj(<<Prop("postPk", Num(v))>>))>>),
                           "include", {Obj(<<Prop("author", True)>>)})
                : v \in idsOf(tables["Post"], "postPk", "postPkSalt")}}
        \cup
        {[model |-> "User", operation |-> "findMany", args |-> args] :
            args \in {Undefined,
                      Obj(<<Prop("include", Obj(<<Prop("posts", True)>>))>>)}}

\* what Math.random() returns to one request, in the order of its calls
RandomStreams == {<<k1, k2>> : k1 \in Draws, k2 \in Draws}

(***************************************************************************)
(* deepHijackResult called directly on a record, a list of records or a    *)
(* record under a relation, with and without a registry.                   *)
(***************************************************************************)
NoHijack ==
    [pc |-> "none", data |-> Undefined, modelName |-> "",
     registry |-> Undefined, shape |-> "", saltFirst |-> FALSE,
     baseVal |-> Undefined, saltVal |-> Undefined, out |-> Undefined,
     threw |-> FALSE]

\* no direct call was made
NoDirect == [pc |-> "none", fn |-> "", n |-> 0]

BaseVals == {Undefined, Null, Num(7), Num(-7), Str("x")}

SaltVals ==
    {Undefined, Null, Num(generateSalt(SaltLength, 0)), Num(45),
     Str("s")}

\* the record inside a value of that shape
recordIn(data, shape) ==
    CASE shape = "record" -> data
      [] shape = "list" -> data.items[1]
      [] shape = "nested" -> getProp(data, "author")

HijackCalls ==
    LET \* a User record as the engine returns it; an Undefined field is absent
        UserRecord(baseVal, saltVal, saltFirst) ==
            LET base == IF baseVal = Undefined THEN <<>> ELSE <<Prop("id", baseVal)>>
                salt == IF saltVal = Undefined THEN <<>>
                        ELSE <<Prop("idSalt", saltVal)>>
            IN  Obj((IF saltFirst THEN salt \o base ELSE base \o salt)
                        \o <<Prop("name", Str("n"))>>)
        Shaped(record, shape) ==
            CASE shape = "record" -> record
              [] shape = "list" -> Arr(<<record>>)
              [] shape = "nested" ->
                    Obj(<<Prop("title", Str("t")), Prop("author", record)>>)
    IN  {[NoHijack EXCEPT !.pc = "call",
             !.data = Shaped(UserRecord(baseVal, saltVal, saltFirst), shape),
             !.modelName = modelName, !.registry = reg, !.shape = shape,
             !.saltFirst = saltFirst, !.baseVal = baseVal, !.saltVal = saltVal] :
            baseVal \in BaseVals, saltVal \in SaltVals, saltFirst \in BOOLEAN,
            shape \in {"record", "list", "nested"},
            modelName \in {"User", "Post", ""},
            reg \in {Undefined, init(NewRegistry, RepoDmmf, config.saltSuffix)}}

Hijack ==
    LET \* the call after deepHijackResult returned or threw
        hijackDone(res) ==
            [hj EXCEPT !.pc = "done", !.out = res.data, !.threw = res.threw]
    IN  /\ hj.pc = "call"
        /\ hj' = hijackDone(deepHijackResult(hj.data, config, hj.modelName,
                                              hj.registry))
        /\ UNCHANGED <<helper, descriptor, client, modelRegistry, tables, call,
                     direct>>

(***************************************************************************)
(* ModelRegistry.init called directly, up to MaxInits times on one         *)
(* registry, with descriptors that are absent, malformed or well formed.   *)
(***************************************************************************)
MaxInits == 2        \* init calls made on one registry

\* descriptors init is called with: null, undefined, without datamodel,
\* without models, with a model without fields, and well formed ones
Descriptors ==
    LET \* field lists of an entity: Int and non-Int columns with and without
        \* a column named after them with a suffix, and relation fields
        FieldLists ==
            { <<Field("id", "scalar", "Int", FALSE, Autoincrement)>>,
              <<Field("id", "scalar", "Int", FALSE, Autoincrement),
                Field("idSalt", "scalar", "Int", FALSE, Undefined)>>,
              <<Field("idSalt", "scalar", "Int", FALSE, Undefined),
                Field("id", "scalar", "String", FALSE, Undefined)>>,
              <<Field("id", "scalar", "Int", FALSE, Autoincrement),
                Field("idSalt", "scalar", "String", FALSE, Undefined),
                Field("idKey", "scalar", "Int", FALSE, Undefined)>>,
              <<Field("id", "scalar", "Int", FALSE, Autoincrement),
                Field("idSalt", "object", "Post", TRUE, Undefined)>>,
              <<Field("idSalt", "scalar", "Int", FALSE, Undefined),
                Field("idSaltSalt", "scalar", "Int", FALSE, Undefined),
                Field("author", "object", "User", FALSE, Undefined)>> }
    IN  {Null, Undefined, [t |-> "object"],
         [t |-> "object", datamodel |-> [enums |-> <<>>]],
         [t |-> "object", datamodel |-> [models |-> <<[name |-> "User"]>>]],
         [t |-> "object",
          datamodel |-> [models |-> << [name |-> "User",
                                        fields |-> UserFields(Undefined)],
                                       [name |-> "Post"] >>]],
         RepoDmmf}
        \cup {[t |-> "object",
               datamodel |-> [models |-> <<[name |-> "User",
                                            fields |-> fields]>>]] :
                 fields \in FieldLists}

\* registry.init(dmmf, suffix)
RegistryInit ==
    LET \* the call and the registry it found
        initDone(dmmf, suffix) ==
            [pc |-> "done", fn |-> "init", dmmf |-> dmmf, suffix |-> suffix,
             before |-> modelRegistry,
             threw |-> initThrows(modelRegistry, dmmf),
             n |-> direct.n + 1]
    IN  /\ direct.fn \in {"", "init"} /\ direct.n < MaxInits
        /\ \E dmmf \in Descriptors, suffix \in {"Salt", "Key"} :
               /\ modelRegistry' = init(modelRegistry, dmmf, suffix)
               /\ direct' = initDone(dmmf, suffix)
        /\ UNCHANGED <<helper, descriptor, client, tables, call, hj>>

(***************************************************************************)
(* Direct calls of Pass A on the arguments of a User operation: a select,  *)
(* an orderBy, or a where whose filter on the salted base field id stands  *)
(* alone or beside other conjuncts.                                        *)
(***************************************************************************)
MaxList == 2         \* entries in the list of an in or a notIn

PassACalls ==
    LET \* ids of at most SaltLength digits, and public ids
        Ids == {Num(1), Num(2), Num(999), Num(1000), Num(1232), Num(1233),
                Num(2232)}
        Lists == UNION {[1..k -> Ids] : k \in 1..MaxList}
        name == Prop("name", Str("n"))
        \* the enclosing where: the filter alone, or its other conjuncts
        \* before and after it
        Envelopes ==
            {<<<<>>, <<>>>>, <<<<>>, <<name>>>>, <<<<name>>, <<>>>>,
             <<<<Prop("AND", Obj(<<name>>))>>, <<>>>>,
             <<<<>>, <<Prop("AND", Obj(<<name>>))>>>>,
             <<<<Prop("AND", Arr(<<Obj(<<name>>)>>))>>, <<>>>>,
             <<<<>>, <<Prop("AND", Arr(<<Obj(<<name>>)>>))>>>>}
        \* what stands in the filter beside the operator
        Beside == {<<>>, <<Prop("equals", Num(2))>>}
        passA(form, op, ids, obj, rest) ==
            [pc |-> "call", fn |-> "deepTransformInput", n |-> 0,
             form |-> form, op |-> op, ids |-> ids, obj |-> obj,
             rest |-> rest, out |-> Undefined, did |-> FALSE]
        whereCall(form, op, ids, filter, env) ==
            passA(form, op, ids,
                  Obj(<<Prop("where",
                             Obj(env[1] \o <<Prop("id", Obj(filter))>>
                                    \o env[2]))>>),
                  Obj(env[1] \o env[2]))
        Selected ==
            {<<Prop("id", True)>>, <<Prop("id", True), name>>,
             <<Prop("id", True), Prop("idSalt", True)>>,
             <<Prop("idSalt", True), Prop("id", True)>>,
             <<Prop("name", True)>>}
        Ordered ==
            {Obj(<<Prop("id", Str(dir))>>) : dir \in {"asc", "desc"}}
                \cup {Arr(<<Obj(<<Prop("id", Str(dir))>>),
                            Obj(<<Prop("name", Str("asc"))>>)>>) :
                         dir \in {"asc", "desc"}}
    IN  {passA("select", "", <<>>, Obj(<<Prop("select", Obj(sel))>>),
               Obj(sel)) : sel \in Selected}
        \cup {passA("orderBy", "", <<>>, Obj(<<Prop("orderBy", ord)>>), ord) :
                 ord \in Ordered}
        \cup {passA("combined", "", <<>>,
                    Obj(<<Prop("select", Obj(sel)), Prop("orderBy", ord)>>),
                    Obj(sel)) : sel \in Selected, ord \in Ordered}
        \cup {whereCall("range", op, <<P>>, <<Prop(op, P)>> \o b, env) :
                 op \in {"gt", "gte", "lt", "lte"}, P \in Ids,
                 b \in {<<>>, <<Prop("not", Num(2))>>}, env \in Envelopes}
        \cup {whereCall("in", "in", l, b \o <<Prop("in", Arr(l))>>, env) :
                 l \in Lists, b \in Beside, env \in Envelopes}
        \cup {whereCall("notIn", "notIn", l, <<Prop("notIn", Arr(l))>>, env) :
                 l \in Lists, env \in Envelopes}
        \cup {whereCall("not", "not", <<P>>, <<Prop("not", P)>>, env) :
                 P \in Ids, env \in Envelopes}
        \cup {whereCall("not", "equals", <<P>>,
                        <<Prop("not", Obj(<<Prop("equals", P)>>))>>, env) :
                 P \in Ids, env \in Envelopes}
        \cup {whereCall("not", "in", l,
                        <<Prop("not", Obj(<<Prop("in", Arr(l))>>))>>, env) :
                 l \in Lists, env \in Envelopes}

\* deepTransformInput(args, "User", registry, options)
TransformInput ==
    LET transformed(res) ==
            [direct EXCEPT !.pc = "done", !.out = res.obj,
                           !.did = res.didTransformId]
    IN  /\ direct.pc = "call" /\ direct.fn = "deepTransformInput"
        /\ direct' = transformed(deepTransformInput(direct.obj, "User",
                                     modelRegistry, config))
        /\ UNCHANGED <<helper, descriptor, client, modelRegistry, tables,
                       call, hj>>

(***************************************************************************)
(* Calls of saltIdsSql(config): the predicate builders on the column id of *)
(* User, and result / resultScan on raw rows.                              *)
(***************************************************************************)
RawCalls ==
    LET rawCall(fn, args) ==
            [pc |-> "call", fn |-> fn, n |-> 0, args |-> args,
             out |-> Undefined, threw |-> FALSE]
        \* what a caller may pass for a public id
        Passed == {Num(5), Num(999), Num(1000), Num(1232), Num(1233),
                   Num(2232), Num(-1232), Str("1232"), Null, Undefined}
        Listed == {Num(5), Num(1232), Num(1233), Num(2232), Str("1232")}
        Bounds == {Num(2), Num(1233), Str("2")}
        \* a raw row: SELECT "id", "idSalt", in either order; an Undefined
        \* value is a column not selected
        rawRow(baseVal, saltVal, saltFirst) ==
            LET base == IF baseVal = Undefined THEN <<>> ELSE <<Prop("id", baseVal)>>
                salt == IF saltVal = Undefined THEN <<>>
                        ELSE <<Prop("idSalt", saltVal)>>
            IN  Obj((IF saltFirst THEN salt \o base ELSE base \o salt)
                        \o <<Prop("name", Str("n"))>>)
    IN  {rawCall(fn, <<P>>) : fn \in {"eq", "ne"}, P \in Passed}
        \cup {rawCall("in", <<Arr(l)>>) :
                 l \in UNION {[1..k -> Listed] : k \in 0..MaxList}}
        \cup {rawCall("in", <<Num(1232)>>)}
        \cup {rawCall(fn, <<x>>) :
                 fn \in {"gtRealId", "ltRealId", "gtFromSaltId", "ltFromSaltId"},
                 x \in Bounds}
        \cup {rawCall(fn, <<a, b>>) :
                 fn \in {"betweenRealId", "betweenFromSaltIds"},
                 a \in Bounds, b \in Bounds}
        \cup {rawCall(fn, <<IF listed THEN Arr(<<rawRow(baseVal, saltVal, saltFirst)>>)
                            ELSE rawRow(baseVal, saltVal, saltFirst)>>) :
                 fn \in {"result", "resultScan"}, listed \in BOOLEAN,
                 baseVal \in BaseVals, saltVal \in SaltVals,
                 saltFirst \in BOOLEAN}

\* where.eq, where.ne, where.in and the range builders
BuildWhere ==
    LET c == col("id", config.saltSuffix)
        built(sql) == [direct EXCEPT !.pc = "done", !.out = sql,
                                     !.threw = (sql = Thrown)]
    IN  /\ direct.pc = "call" /\ direct.fn \notin {"", "result", "resultScan"}
        /\ direct' =
               built(CASE direct.fn = "eq" ->
                            where_eq(c, direct.args[1], config.saltLength)
                       [] direct.fn = "ne" ->
                            where_ne(c, direct.args[1], config.saltLength)
                       [] direct.fn = "in" ->
                            where_in(c, direct.args[1], config.saltLength)
                       [] OTHER ->
                            where_range(direct.fn, c, direct.args,
                                        config.saltLength))
        /\ UNCHANGED <<helper, descriptor, client, modelRegistry, tables,
                       call, hj>>

\* result({ fields: ["id"] })(rows) and resultScan(rows)
HijackRaw ==
    LET hijacked(res) == [direct EXCEPT !.pc = "done", !.out = res.data,
                                        !.threw = res.threw]
    IN  /\ direct.pc = "call" /\ direct.fn \in {"result", "resultScan"}
        /\ direct' =
               hijacked(IF direct.fn = "result"
                        THEN resultOf(<<"id">>, direct.args[1],
                                      config.saltLength, config.saltSuffix)
                        ELSE resultScan(direct.args[1], config.saltLength,
                                        config.saltSuffix))
        /\ UNCHANGED <<helper, descriptor, client, modelRegistry, tables,
                       call, hj>>

MaxAgain == 2        \* hijackers applied to rows that are hijacked already

\* a caller passes rows that a hijacker returned to a hijacker once more:
\* result({ fields: ["id"] }), resultScan (as the $queryRaw hook applies it)
\* or deepHijackResult; prev keeps the rows as they were passed
HijackAgain ==
    LET again(h, res) ==
            [pc |-> "again", fn |-> direct.fn, n |-> direct.n + 1,
             args |-> direct.args, second |-> h, prev |-> direct.out,
             out |-> res.data, threw |-> res.threw]
    IN  /\ direct.pc \in {"done", "again"}
        /\ direct.fn \in {"result", "resultScan"}
        /\ ~direct.threw
        /\ direct.n < MaxAgain
        /\ \E h \in {"result", "resultScan", "deepHijackResult"} :
               direct' =
                   again(h, CASE h = "result" ->
                                    resultOf(<<"id">>, direct.out,
                                             config.saltLength, config.saltSuffix)
                              [] h = "resultScan" ->
                                    resultScan(direct.out, config.saltLength,
                                               config.saltSuffix)
                              [] h = "deepHijackResult" ->
                                    deepHijackResult(direct.out, config, "",
                                                     Undefined))
        /\ UNCHANGED <<helper, descriptor, client, modelRegistry, tables,
                       call, hj>>

(***************************************************************************)
(* Direct calls of Pass B as the operation dispatches it: the payload of a *)
(* create, the payloads of a createMany, the branches of an upsert.        *)
(***************************************************************************)
MaxDraws == 4        \* salts one call of Pass B may generate

PassBCalls ==
    LET injectCall(operation, model, args, rnds) ==
            [pc |-> "call", fn |-> "injectForOperation", n |-> 0,
             operation |-> operation, model |-> model, args |-> args,
             rnds |-> rnds, out |-> Undefined]
        \* a payload: the fields the caller provides; an Undefined value is
        \* a field not provided
        payload(text, base, baseVal, salt, saltVal) ==
            Obj(<<text>>
                \o (IF baseVal = Undefined THEN <<>> ELSE <<Prop(base, baseVal)>>)
                \o (IF saltVal = Undefined THEN <<>> ELSE <<Prop(salt, saltVal)>>))
        Payloads(model) ==
            IF model = "User"
            THEN {payload(Prop("name", Str("n")), "id", b, "idSalt", sl) :
                     b \in {Undefined, Num(7)}, sl \in {Undefined, Num(555)}}
            ELSE {payload(Prop("title", Str("t")), "authorId", b,
                          "authorIdSalt", sl) :
                     b \in {Undefined, Null, Num(7)},
                     sl \in {Undefined, Num(555)}}
                 \cup {payload(Prop("title", Str("t")), "postPk", Undefined,
                               "postPkSalt", Num(555))}
        Streams == {[i \in 1..MaxDraws |-> IF i % 2 = 1 THEN k1 ELSE k2] :
                       k1 \in Draws, k2 \in Draws}
    IN  UNION {
            {injectCall("create", model, Obj(<<Prop("data", p)>>), rnds) :
                p \in Payloads(model)}
            \cup {injectCall("createMany", model,
                             Obj(<<Prop("data", Arr(<<p, q>>))>>), rnds) :
                     p \in Payloads(model), q \in Payloads(model)}
            \cup {injectCall("upsert", model,
                             Obj(<<Prop("where", Obj(<<Prop("name", Str("n"))>>)),
                                   Prop("create", p),
                                   Prop("update", Obj(<<Prop("name", Str("m"))>>))>>),
                             rnds) :
                     p \in Payloads(model)}
            : model \in {"User", "Post"}, rnds \in Streams}

\* Pass B on the arguments of one operation
InjectSalt ==
    /\ direct.pc = "call" /\ direct.fn = "injectForOperation"
    /\ direct' = [direct EXCEPT !.pc = "done",
                     !.out = injectForOperation(direct.operation, direct.args,
                                 direct.model, modelRegistry, direct.rnds)]
    /\ UNCHANGED <<helper, descriptor, client, modelRegistry, tables, call, hj>>

(***************************************************************************)
(* The argument passes of a write, as $allOperations runs them: Pass A on   *)
(* args, then Pass B as the operation dispatches it.  A call lists its      *)
(* payloads: where each one sits in args, the model it belongs to and the   *)
(* verb it sits under ("root" and "rootUpdate" for the operation's own).    *)
(***************************************************************************)
WriteCalls ==
    LET writeCall(model, operation, args, payloads, rnds) ==
            [pc |-> "call", fn |-> "$allOperations", n |-> 0, model |-> model,
             operation |-> operation, args |-> args, payloads |-> payloads,
             rnds |-> rnds, afterA |-> Undefined, out |-> Undefined]
        payloadAt(path, model, via) ==
            [path |-> path, model |-> model, via |-> via]
        under(prefix, payloads) ==
            [i \in 1..Len(payloads) |->
                [payloads[i] EXCEPT !.path = prefix \o @]]
        name == Prop("name", Str("n"))
        title == Prop("title", Str("t"))
        Streams == {[i \in 1..MaxDraws |-> IF i % 2 = 1 THEN k1 ELSE k2] :
                       k1 \in Draws, k2 \in Draws}
        \* what a caller gives a salted base field: a public id, plain or
        \* under set; an id of at most SaltLength digits; null; nothing
        Given == {<<Num(1232)>>, <<Obj(<<Prop("set", Num(1232))>>)>>,
                  <<Num(7)>>, <<Null>>, <<>>}
        given(base, g) == IF g = <<>> THEN <<>> ELSE <<Prop(base, g[1])>>
        Supplied(salt) == {<<>>, <<Prop(salt, Num(555))>>}
        RootPayloads(model) ==
            IF model = "User"
            THEN {Obj(<<name>> \o given("id", g) \o sl) :
                     g \in Given, sl \in Supplied("idSalt")}
            ELSE {Obj(<<title>> \o given("authorId", g) \o sl) :
                     g \in Given, sl \in Supplied("authorIdSalt")}
        key(model) ==
            Obj(<<Prop(IF model = "User" THEN "id" ELSE "postPk", Num(1232))>>)
        PostPayloads ==
            {Obj(<<title>>), Obj(<<title, Prop("authorId", Num(1232))>>)}
        author == Obj(<<Prop("create", Obj(<<name>>))>>)
        \* the values of the relation posts of a User payload
        NestedPosts ==
            UNION {
                {[value |-> Obj(<<Prop("create", p)>>),
                  payloads |-> <<payloadAt(<<"create">>, "Post", "create")>>],
                 [value |-> Obj(<<Prop("create", Arr(<<p, q>>))>>),
                  payloads |->
                      <<payloadAt(<<"create", "0">>, "Post", "create"),
                        payloadAt(<<"create", "1">>, "Post", "create")>>],
                 [value |-> Obj(<<Prop("createMany",
                                       Obj(<<Prop("data", Arr(<<p, q>>))>>))>>),
                  payloads |->
                      <<payloadAt(<<"createMany", "data", "0">>, "Post",
                                  "createMany"),
                        payloadAt(<<"createMany", "data", "1">>, "Post",
                                  "createMany")>>],
                 [value |-> Obj(<<Prop("connectOrCreate",
                                       Obj(<<Prop("where", key("Post")),
                                             Prop("create", p)>>))>>),
                  payloads |->
                      <<payloadAt(<<"connectOrCreate", "create">>, "Post",
                                  "connectOrCreate")>>],
                 [value |-> Obj(<<Prop("connectOrCreate",
                                       Arr(<<Obj(<<Prop("where", key("Post")),
                                                   Prop("create", p)>>)>>))>>),
                  payloads |->
                      <<payloadAt(<<"connectOrCreate", "0", "create">>, "Post",
                                  "connectOrCreate")>>],
                 [value |-> Obj(<<Prop("upsert",
                                       Obj(<<Prop("where", key("Post")),
                                             Prop("create", p),
                                             Prop("update", q)>>))>>),
                  payloads |->
                      <<payloadAt(<<"upsert", "create">>, "Post", "upsert"),
                        payloadAt(<<"upsert", "update">>, "Post", "update")>>],
                 [value |-> Obj(<<Prop("upsert",
                                       Arr(<<Obj(<<Prop("where", key("Post")),
                                                   Prop("create", p),
                                                   Prop("update", q)>>)>>))>>),
                  payloads |->
                      <<payloadAt(<<"upsert", "0", "create">>, "Post", "upsert"),
                        payloadAt(<<"upsert", "0", "update">>, "Post",
                                  "update")>>],
                 [value |-> Obj(<<Prop("update",
                                       Obj(<<Prop("where", key("Post")),
                                             Prop("data", p)>>))>>),
                  payloads |->
                      <<payloadAt(<<"update", "data">>, "Post", "update")>>],
                 [value |-> Obj(<<Prop("create",
                                       setProp(p, "author", author))>>),
                  payloads |->
                      <<payloadAt(<<"create">>, "Post", "create"),
                        payloadAt(<<"create", "author", "create">>, "User",
                                  "create")>>],
                 [value |-> Obj(<<Prop("update",
                                       Obj(<<Prop("where", key("Post")),
                                             Prop("data",
                                                  setProp(p, "author", author))>>))>>),
                  payloads |->
                      <<payloadAt(<<"update", "data">>, "Post", "update"),
                        payloadAt(<<"update", "data", "author", "create">>,
                                  "User", "update")>>]}
                : p \in PostPayloads, q \in PostPayloads}
            \cup
            {[value |-> Obj(<<Prop("connect", key("Post"))>>),
              payloads |-> <<payloadAt(<<"connect">>, "Post", "connect")>>],
             [value |-> Obj(<<Prop("delete", key("Post"))>>),
              payloads |-> <<payloadAt(<<"delete">>, "Post", "delete")>>]}
        \* the values of the relation author of a Post payload
        NestedAuthor ==
            {[value |-> author,
              payloads |-> <<payloadAt(<<"create">>, "User", "create")>>],
             [value |-> Obj(<<Prop("connectOrCreate",
                                   Obj(<<Prop("where", key("User")),
                                         Prop("create", Obj(<<name>>))>>))>>),
              payloads |->
                  <<payloadAt(<<"connectOrCreate", "create">>, "User",
                              "connectOrCreate")>>],
             [value |-> Obj(<<Prop("connect", key("User"))>>),
              payloads |-> <<payloadAt(<<"connect">>, "User", "connect")>>],
             [value |-> Obj(<<Prop("update", Obj(<<name>>))>>),
              payloads |-> <<payloadAt(<<"update">>, "User", "update")>>]}
        \* the payloads of a model: plain ones, and ones with a relation
        Payloads(model) ==
            {[value |-> r, payloads |-> <<>>] : r \in RootPayloads(model)}
            \cup
            {[value |-> Obj(<<IF model = "User" THEN name ELSE title,
                              Prop(IF model = "User" THEN "posts" ELSE "author",
                                   nv.value)>>),
              payloads |-> under(<<IF model = "User" THEN "posts" ELSE "author">>,
                                 nv.payloads)] :
                nv \in IF model = "User" THEN NestedPosts ELSE NestedAuthor}
        plain(model) ==
            [value |-> Obj(<<IF model = "User" THEN name ELSE title>>),
             payloads |-> <<>>]
        \* an operation with one payload under the key data
        dataCall(model, operation, via, d, rnds) ==
            writeCall(model, operation,
                      Obj((IF operation = "create" THEN <<>>
                           ELSE <<Prop("where", key(model))>>)
                              \o <<Prop("data", d.value)>>),
                      <<payloadAt(<<"data">>, model, via)>>
                          \o under(<<"data">>, d.payloads),
                      rnds)
        upsertCall(model, c, u, rnds) ==
            writeCall(model, "upsert",
                      Obj(<<Prop("where", key(model)), Prop("create", c.value),
                            Prop("update", u.value)>>),
                      <<payloadAt(<<"create">>, model, "root"),
                        payloadAt(<<"update">>, model, "rootUpdate")>>
                          \o under(<<"create">>, c.payloads)
                          \o under(<<"update">>, u.payloads),
                      rnds)
    IN  UNION {
            {dataCall(model, "create", "root", d, rnds) :
                d \in Payloads(model)}
            \cup {dataCall(model, operation, "rootUpdate", d, rnds) :
                     operation \in {"update", "updateMany"},
                     d \in Payloads(model)}
            \cup {upsertCall(model, d, plain(model), rnds) :
                     d \in Payloads(model)}
            \cup {upsertCall(model, plain(model), d, rnds) :
                     d \in Payloads(model)}
            : model \in {"User", "Post"}, rnds \in Streams}

\* Pass A: if (args) deepTransformInput(args, model, registry, config)
TransformArgs ==
    /\ direct.pc = "call" /\ direct.fn = "$allOperations"
    /\ direct' = [direct EXCEPT !.pc = "passA",
                     !.afterA = IF truthy(direct.args)
                                THEN deepTransformInput(direct.args, direct.model,
                                         modelRegistry, config).obj
                                ELSE direct.args]
    /\ UNCHANGED <<helper, descriptor, client, modelRegistry, tables, call, hj>>

\* Pass B on what Pass A left
InjectArgs ==
    /\ direct.pc = "passA" /\ direct.fn = "$allOperations"
    /\ direct' = [direct EXCEPT !.pc = "done",
                     !.out = injectForOperation(direct.operation, direct.afterA,
                                 direct.model, modelRegistry, direct.rnds)]
    /\ UNCHANGED <<helper, descriptor, client, modelRegistry, tables, call, hj>>

(***************************************************************************)
(* The other things the wrapped execution and the callers do: the          *)
(* execution rejects, a caller reuses an argument object, and the requests *)
(* that are neither a create nor a find by id.                             *)
(***************************************************************************)
\* the wrapped execution rejects, for want of a row to update or for a
\* reason of its own (the storage is unreachable): the await throws and the
\* rejection leaves $allOperations as it is
QueryRejects ==
    /\ call.pc = "query"
    /\ call' = [call EXCEPT !.pc = "threw", !.raw = QueryError,
                            !.result = QueryError]
    /\ UNCHANGED <<descriptor, client, modelRegistry, tables, helper, hj, direct>>

\* the caller issues the findUnique that returned once more, with the
\* argument object of the first call as that call left it; direct keeps what
\* the first call was given, what it left of it and what it returned
Reissue ==
    LET awaiting(prepared) ==
            [Idle EXCEPT !.pc = "query", !.model = call.model,
                         !.operation = call.operation, !.orig = call.args,
                         !.args = prepared.args,
                         !.didTransformId = prepared.didTransformId,
                         !.expectedSalts = prepared.expectedSalts]
    IN  /\ call.pc = "returned" /\ call.operation = "findUnique"
        /\ direct = NoDirect
        /\ direct' = [pc |-> "reissued", fn |-> "findUnique", n |-> 0,
                      given |-> call.orig, left |-> call.args,
                      first |-> call.result]
        /\ call' = awaiting(prepare(call.model, call.operation, call.args,
                                    modelRegistry, <<>>))
        /\ UNCHANGED <<descriptor, client, modelRegistry, tables, helper, hj>>

\* control passes between two model operations in flight: the handler runs
\* without interruption up to its await of query(args) and from there to
\* its return, so the operation in direct takes over between such steps
Switch ==
    /\ direct.pc \in {"idle", "query", "resume", "returned", "threw"}
    /\ call' = direct
    /\ direct' = call
    /\ UNCHANGED <<descriptor, client, modelRegistry, tables, helper, hj>>

\* the other requests: createMany, update and upsert, and a findUnique by
\* the public id of a row written with a zero before the real id
FurtherRequests ==
    LET users == tables["User"]
        posts == tables["Post"]
        room == MaxRows - (Len(users) + Len(posts))
        name(n) == Prop("name", Str(n))
        byId(v) == Prop("where", Obj(<<Prop("id", Num(v))>>))
        byPk(v) == Prop("where", Obj(<<Prop("postPk", Num(v))>>))
        request(model, operation, props) ==
            [model |-> model, operation |-> operation, args |-> Obj(props)]
        \* salt, "0", real id
        padded(row) ==
            Number(toString(row["idSalt"].n) \o <<"0">> \o toString(row["id"].n))
        UserIds == idsOf(users, "id", "idSalt")
    IN  (IF room < 2 THEN {}
         ELSE {request("User", "createMany",
                       <<Prop("data", Arr(<<Obj(<<name("n")>>),
                                            Obj(<<name("n")>>)>>))>>)}
)
        \cup {request("User", "update", <<byId(v), Prop("data", Obj(<<name("m")>>))>>) :
                 v \in UserIds}
        \cup {request("Post", "update", <<byPk(v), Prop("data", d)>>) :
                 v \in idsOf(posts, "postPk", "postPkSalt"),
                 d \in {Obj(<<Prop("authorId", Null)>>)}
                       \cup {Obj(<<Prop("authorId", Num(w))>>) : w \in UserIds}}
        \cup (IF room < 1 THEN {}
              ELSE {request("User", "upsert",
                            <<byId(v), Prop("create", Obj(<<name("n")>>)),
                              Prop("update", Obj(<<name("m")>>))>>) :
                       v \in UserIds \cup {1}})
        \cup {request("User", "findUnique", <<byId(padded(users[i]))>>) :
                 i \in {j \in 1..Len(users) : users[j]["idSalt"].t = "number"}}

(***************************************************************************)
(* Calls on the helper.  A call is drawn with its arguments (pc = "call"), *)
(* the action of its name runs it (pc = "done"), and a second call may be  *)
(* made on what the first returned.                                        *)
(***************************************************************************)
NoCall ==
    [op |-> "none", pc |-> "call", realId |-> 0, salt |-> 0, pid |-> 0,
     saltLen |-> 0, rnd |-> 0, chained |-> FALSE, out |-> [t |-> "none"]]

SaltLens == 1..MaxSaltLen

EncodeCalls ==
    {[NoCall EXCEPT !.op = "encode", !.realId = realId, !.salt = salt,
                    !.saltLen = saltLen] :
        realId \in -MaxRealId..MaxRealId, salt \in -2..MaxSaltArg,
        saltLen \in SaltLens}

DecodeCalls ==
    {[NoCall EXCEPT !.op = op, !.pid = pid, !.saltLen = saltLen] :
        op \in {"decode", "isPotentialSaltId"}, pid \in -MaxPid..MaxPid,
        saltLen \in SaltLens}

GenerateCalls ==
    {[NoCall EXCEPT !.op = "generateSalt", !.saltLen = saltLen, !.rnd = k,
                    !.realId = realId] :
        saltLen \in SaltLens, k \in 0..(RandDen - 1),
        realId \in -MaxRealId..MaxRealId}

Encode ==
    /\ helper.op = "encode" /\ helper.pc = "call"
    /\ helper' = [helper EXCEPT !.pc = "done",
                     !.out = encode(helper.realId, helper.salt, helper.saltLen)]
    /\ UNCHANGED <<descriptor, client, modelRegistry, tables, call, hj, direct>>

Decode ==
    /\ helper.op = "decode" /\ helper.pc = "call"
    /\ helper' = [helper EXCEPT !.pc = "done",
                     !.out = decode(helper.pid, helper.saltLen)]
    /\ UNCHANGED <<descriptor, client, modelRegistry, tables, call, hj, direct>>

\* decode applied to what encode returned
DecodeEncoded ==
    /\ helper.op = "encode" /\ helper.pc = "done" /\ ~helper.chained
    /\ helper.out.t = "num"
    /\ helper' = [helper EXCEPT !.op = "decode", !.pid = helper.out.n,
                                !.chained = TRUE,
                                !.out = decode(helper.out.n, helper.saltLen)]
    /\ UNCHANGED <<descriptor, client, modelRegistry, tables, call, hj, direct>>

IsPotentialSaltId ==
    /\ helper.op = "isPotentialSaltId" /\ helper.pc = "call"
    /\ helper' = [helper EXCEPT !.pc = "done",
                     !.out = [t |-> "bool",
                              b |-> isPotentialSaltId(helper.pid, helper.saltLen)]]
    /\ UNCHANGED <<descriptor, client, modelRegistry, tables, call, hj, direct>>

GenerateSalt ==
    /\ helper.op = "generateSalt" /\ helper.pc = "call"
    /\ helper' = [helper EXCEPT !.pc = "done",
                     !.out = Returned(generateSalt(helper.saltLen, helper.rnd))]
    /\ UNCHANGED <<descriptor, client, modelRegistry, tables, call, hj, direct>>

\* encode applied to the salt generateSalt returned
EncodeGenerated ==
    /\ helper.op = "generateSalt" /\ helper.pc = "done"
    /\ helper' = [helper EXCEPT !.op = "encode", !.salt = helper.out.n,
                                !.chained = TRUE,
                                !.out = encode(helper.realId, helper.out.n,
                                               helper.saltLen)]
    /\ UNCHANGED <<descriptor, client, modelRegistry, tables, call, hj, direct>>

(***************************************************************************)
(* Specifications.  SpecCodec calls the helper; Spec is the extended       *)
(* client serving one model operation at a time; SpecHijack calls the      *)
(* result hijacker directly.                                               *)
(***************************************************************************)
vars == <<helper, descriptor, client, modelRegistry, tables, call, hj, direct>>

InitCodec ==
    /\ helper \in EncodeCalls \cup DecodeCalls \cup GenerateCalls
    /\ descriptor = Undefined /\ client = Client(RepoDmmf, "")
    /\ modelRegistry = NewRegistry /\ tables = EmptyDb /\ call = Idle
    /\ hj = NoHijack /\ direct = NoDirect

NextCodec ==
    \/ Encode
    \/ Decode
    \/ DecodeEncoded
    \/ IsPotentialSaltId
    \/ GenerateSalt
    \/ EncodeGenerated

SpecCodec == InitCodec /\ [][NextCodec]_vars

\* the descriptor is passed; or the client carries it; or neither does
Init ==
    /\ \/ descriptor = RepoDmmf /\ client = Client(RepoDmmf, "")
       \/ /\ descriptor = Undefined
          /\ client = Client(SaltDefaultDmmf, "_runtimeDataModel")
       \/ descriptor = Undefined /\ client = Client(RepoDmmf, "")
    /\ modelRegistry = NewRegistry
    /\ tables \in {EmptyDb, [EmptyDb EXCEPT !["User"] = <<LegacyUser>>]}
    /\ call = Idle
    /\ helper = NoCall /\ hj = NoHijack /\ direct = NoDirect

Next ==
    \/ \E r \in CreateRequests, rnds \in RandomStreams :
           Begin(r.model, r.operation, r.args, rnds)
    \/ \E r \in FindRequests : Begin(r.model, r.operation, r.args, <<>>)
    \/ Query
    \/ Resume

Spec == Init /\ [][Next]_vars

InitHijack ==
    /\ hj \in HijackCalls
    /\ descriptor = Undefined /\ client = Client(RepoDmmf, "")
    /\ modelRegistry = NewRegistry /\ tables = EmptyDb /\ call = Idle
    /\ helper = NoCall /\ direct = NoDirect

NextHijack == Hijack

SpecHijack == InitHijack /\ [][NextHijack]_vars

\* the extended client serving every kind of request, with a wrapped
\* execution that may reject
SpecClient ==
    /\ Init
    /\ [][\/ Next
          \/ \E r \in FurtherRequests, k \in Draws :
                 Begin(r.model, r.operation, r.args, [i \in 1..MaxDraws |-> k])
          \/ QueryRejects]_vars

\* the extended client over a table of users that it wrote or that is older
\* than it, serving finds to callers that reuse their argument objects
SpecReuse ==
    /\ \/ descriptor = RepoDmmf /\ client = Client(RepoDmmf, "")
       \/ /\ descriptor = Undefined
          /\ client = Client(RepoDmmf, "_runtimeDataModel")
    /\ modelRegistry = NewRegistry
    /\ tables \in {[User |-> legacy \o
                               <<[id |-> Num(Len(legacy) + 1),
                                  idSalt |-> Num(generateSalt(SaltLength, k)),
                                  name |-> Str("n")]>>,
                     Post |-> <<>>] :
                      legacy \in {<<>>, <<LegacyUser>>}, k \in Draws}
    /\ call = Idle
    /\ helper = NoCall /\ hj = NoHijack /\ direct = NoDirect
    /\ [][\/ \E r \in FindRequests : Begin(r.model, r.operation, r.args, <<>>)
          \/ Query
          \/ Resume
          \/ Reissue]_vars

\* the extended client serving two model operations at a time
SpecConcurrent ==
    /\ \/ descriptor = RepoDmmf /\ client = Client(RepoDmmf, "")
       \/ /\ descriptor = Undefined
          /\ client = Client(RepoDmmf, "_runtimeDataModel")
       \/ descriptor = Undefined /\ client = Client(RepoDmmf, "")
    /\ modelRegistry = NewRegistry
    /\ tables = [EmptyDb EXCEPT !["User"] = <<LegacyUser>>]
    /\ call = Idle /\ direct = Idle
    /\ helper = NoCall /\ hj = NoHijack
    /\ [][\/ \E r \in CreateRequests, k \in Draws :
                 r.model = "User" /\ Begin(r.model, r.operation, r.args, <<k, k>>)
          \/ \E r \in FindRequests :
                 /\ r.model = "User" /\ r.operation = "findUnique"
                 /\ ~hasOwn(r.args, "select")
                 /\ Begin(r.model, r.operation, r.args, <<>>)
          \/ Query
          \/ Resume
          \/ Switch]_vars

\* a fresh registry and the init calls made on it
SpecRegistry ==
    /\ modelRegistry = NewRegistry /\ direct = NoDirect
    /\ descriptor = Undefined /\ client = Client(RepoDmmf, "")
    /\ tables = EmptyDb /\ call = Idle /\ helper = NoCall /\ hj = NoHijack
    /\ [][RegistryInit]_vars

\* the registry of the repository's schema, or of the schema whose idSalt
\* has a default, and one call of Pass B
SpecPassB ==
    /\ modelRegistry \in {init(NewRegistry, dmmf, config.saltSuffix) :
                             dmmf \in {RepoDmmf, SaltDefaultDmmf}}
    /\ direct \in PassBCalls
    /\ descriptor = Undefined /\ client = Client(RepoDmmf, "")
    /\ tables = EmptyDb /\ call = Idle /\ helper = NoCall /\ hj = NoHijack
    /\ [][InjectSalt]_vars

\* one call of the raw query adapter
SpecRaw ==
    /\ direct \in RawCalls
    /\ modelRegistry = NewRegistry /\ descriptor = Undefined
    /\ client = Client(RepoDmmf, "")
    /\ tables = EmptyDb /\ call = Idle /\ helper = NoCall /\ hj = NoHijack
    /\ [][BuildWhere \/ HijackRaw]_vars

\* rows hijacked by the raw query adapter and passed to a hijacker again
SpecRehijack ==
    /\ direct \in {c \in RawCalls : c.fn \in {"result", "resultScan"}}
    /\ modelRegistry = NewRegistry /\ descriptor = Undefined
    /\ client = Client(RepoDmmf, "")
    /\ tables = EmptyDb /\ call = Idle /\ helper = NoCall /\ hj = NoHijack
    /\ [][HijackRaw \/ HijackAgain]_vars

\* the registry of the repository's schema and one call of Pass A
SpecPassA ==
    /\ modelRegistry = init(NewRegistry, RepoDmmf, config.saltSuffix)
    /\ direct \in PassACalls
    /\ descriptor = Undefined /\ client = Client(RepoDmmf, "")
    /\ tables = EmptyDb /\ call = Idle /\ helper = NoCall /\ hj = NoHijack
    /\ [][TransformInput]_vars

\* the registry of the repository's schema and the argument passes of one
\* write
SpecWrites ==
    /\ modelRegistry = init(NewRegistry, RepoDmmf, config.saltSuffix)
    /\ direct \in WriteCalls
    /\ descriptor = Undefined /\ client = Client(RepoDmmf, "")
    /\ tables = EmptyDb /\ call = Idle /\ helper = NoCall /\ hj = NoHijack
    /\ [][TransformArgs \/ InjectArgs]_vars

(***************************************************************************)
(* Properties of the helper, checked under SpecCodec.                      *)
(***************************************************************************)
\* the number of decimal digits of n >= 0, by magnitude
DigitCount(n) ==
    CHOOSE d \in 1..10 : (d = 1 \/ pow10(d - 1) <= n) /\ n < pow10(d)

HasExactlyLDigits(salt, saltLen) ==
    pow10(saltLen - 1) <= salt /\ salt < pow10(saltLen)

\* C1: round trip - for every real id (negative, zero, positive) and every
\* salt of exactly saltLen digits with leading digit >= 1, encode returns and
\* decode of what it returned is exactly {id, salt}.
C1_RoundTrip ==
    HasExactlyLDigits(helper.salt, helper.saltLen) =>
        /\ (helper.op = "encode" /\ helper.pc = "done") => helper.out.t = "num"
        /\ (helper.op = "decode" /\ helper.chained) =>
               helper.out = [id |-> helper.realId, salt |-> helper.salt]

C1_Witness ==
    /\ helper.op = "decode" /\ helper.chained
    /\ helper.realId = -MaxRealId /\ helper.saltLen = 3 /\ helper.salt = 101
    /\ helper.out = [id |-> -MaxRealId, salt |-> 101]

\* C2: short-value passthrough - a value of at most saltLen digits decodes to
\* {id: v, salt: 0} and is no potential salt id; a value of more than saltLen
\* digits is a potential salt id.
C2_ShortValuePassthrough ==
    /\ (helper.op = "decode" /\ helper.pc = "done" /\ ~helper.chained
          /\ DigitCount(abs(helper.pid)) <= helper.saltLen) =>
           helper.out = [id |-> helper.pid, salt |-> 0]
    /\ (helper.op = "isPotentialSaltId" /\ helper.pc = "done") =>
           helper.out.b = (DigitCount(abs(helper.pid)) > helper.saltLen)

C2_Witness ==
    /\ helper.op = "decode" /\ helper.pc = "done" /\ ~helper.chained
    /\ helper.pid = -999 /\ helper.saltLen = 3
    /\ helper.out = [id |-> -999, salt |-> 0]

\* C3: encode matches the reference - it throws iff salt < 0 or the salt's
\* digit count differs from saltLen; otherwise the magnitude is the salt
\* shifted left by the digit count of |realId| plus |realId|, and the sign is
\* negative exactly when realId < 0.
ReferenceEncode(realId, salt, saltLen) ==
    IF salt < 0 \/ DigitCount(salt) # saltLen THEN Thrown
    ELSE LET magnitude == salt * pow10(DigitCount(abs(realId))) + abs(realId)
         IN  Returned(IF realId < 0 THEN -magnitude ELSE magnitude)

C3_EncodeMatchesReference ==
    (helper.op = "encode" /\ helper.pc = "done") =>
        helper.out = ReferenceEncode(helper.realId, helper.salt, helper.saltLen)

C3_Witness ==
    /\ helper.op = "encode" /\ helper.pc = "done" /\ ~helper.chained
    /\ helper.realId = -5 /\ helper.salt = 12 /\ helper.saltLen = 2
    /\ helper.out = Returned(-125)

\* C4: every generated salt lies in [10^(saltLen-1), 10^saltLen - 1], and
\* encode never rejects it.
C4_GeneratedSaltInRange ==
    /\ (helper.op = "generateSalt" /\ helper.pc = "done") =>
           HasExactlyLDigits(helper.out.n, helper.saltLen)
    /\ (helper.op = "encode" /\ helper.chained) => helper.out.t = "num"

\* the largest draw reaches the top of the range
C4_Witness ==
    /\ helper.op = "encode" /\ helper.chained /\ helper.saltLen = 1
    /\ helper.salt = 9 /\ helper.rnd = RandDen - 1 /\ helper.out.t = "num"

(***************************************************************************)
(* Properties of the result hijacker, checked under SpecHijack.            *)
(***************************************************************************)
inSeq(x, seq) == \E i \in 1..Len(seq) : seq[i] = x

\* the registry is given and the record is reached as a User
RegisteredUser ==
    /\ hj.registry # Undefined
    /\ \/ hj.shape \in {"record", "list"} /\ hj.modelName = "User"
       \/ hj.shape = "nested" /\ hj.modelName = "Post"

\* what reading a hijacked base yields: the value encode returns, or its throw
Composed(baseVal, saltVal) ==
    LET r == encode(baseVal, saltVal, SaltLength)
    IN  IF r.t = "throw" THEN Thrown ELSE Num(r.n)

\* C8: hijack hides salt - after deepHijackResult on a record whose
\* registered base and salt are both numeric, the enumerable own keys do not
\* include the salt field, reading the base returns
\* encode(storedBase, storedSalt, L), and reading the salt field directly
\* still returns the raw stored salt.
C8_HijackHidesSalt ==
    (/\ hj.pc = "done" /\ RegisteredUser
     /\ hj.baseVal.t = "number" /\ hj.saltVal.t = "number") =>
        LET record == recordIn(hj.out, hj.shape) IN
        /\ ~inSeq("idSalt", objectKeys(record))
        /\ getProp(record, "id") = Composed(hj.baseVal.n, hj.saltVal.n)
        /\ getProp(record, "idSalt") = hj.saltVal

C8_Witness ==
    /\ hj.pc = "done" /\ RegisteredUser /\ hj.shape = "nested"
    /\ hj.baseVal = Num(-7) /\ hj.saltVal.t = "number"
    /\ getProp(recordIn(hj.out, hj.shape), "id") =
           Num(-(generateSalt(SaltLength, 0) * 10 + 7))
    /\ objectKeys(recordIn(hj.out, hj.shape)) = <<"id", "name">>

\* C10: null propagation - when the stored base of a registered pair is
\* null, after hijacking the base still reads null, no accessor is installed
\* on it, and the salt field is non-enumerable.
C10_NullPropagation ==
    (hj.pc = "done" /\ RegisteredUser /\ hj.baseVal = Null) =>
        LET record == recordIn(hj.out, hj.shape) IN
        /\ getProp(record, "id") = Null
        /\ ~record.props[propIndex(record, "id")].get.on
        /\ ~inSeq("idSalt", objectKeys(record))

C10_Witness ==
    /\ hj.pc = "done" /\ RegisteredUser /\ hj.baseVal = Null
    /\ hj.saltVal.t = "number" /\ hj.saltFirst
    /\ hasOwn(recordIn(hj.out, hj.shape), "idSalt")
    /\ objectKeys(recordIn(hj.out, hj.shape)) = <<"id", "name">>

(***************************************************************************)
(* Properties of the intercepted model operations, checked under Spec.     *)
(***************************************************************************)
\* the row the last create stored
createdRow == tables[call.model][Len(tables[call.model])]

origData == getProp(call.orig, "data")

\* the pair's salt field has a storage default in the client's schema
saltHasStorageDefault(pair) ==
    defaultStatus(modelFields(client.schema, call.model), pair.salt)

\* the pair's base gets a value: by default, or because the payload has it
baseGetsValue(pair) ==
    \/ defaultStatus(modelFields(client.schema, call.model), pair.base)
    \/ getProp(origData, pair.base) # Undefined

createDone == call.operation = "create" /\ call.pc \in {"resume", "returned"}

\* the persisted salt has L digits and the returned base reads the public id
saltedAndComposed(pair) ==
    /\ createdRow[pair.salt].t = "number"
    /\ HasExactlyLDigits(createdRow[pair.salt].n, SaltLength)
    /\ (call.pc = "returned" /\ hasOwn(call.result, pair.base)) =>
           getProp(call.result, pair.base) =
               Composed(createdRow[pair.base].n, createdRow[pair.salt].n)

origBase == getProp(call.orig, "where").props[1].key

origP == getProp(call.orig, "where").props[1].value.n

isPublicIdOf(P, row, base, salt) ==
    /\ row[salt].t = "number"
    /\ encode(row[base].n, row[salt].n, SaltLength) = Returned(P)

\* C6: point lookup - findUnique with filter {base: P}, P the public id of
\* a stored row, returns exactly that row and its base reads P; if the row
\* with real id decode(P).id exists but its stored salt differs from
\* decode(P).salt (P of more than L digits), the result is null.
C6_PointLookup ==
    (call.operation = "findUnique" /\ call.pc = "returned") =>
        LET salt == origBase \o config.saltSuffix
            rows == tables[call.model]
            d == decode(origP, SaltLength)
        IN  \A i \in 1..Len(rows) :
                /\ isPublicIdOf(origP, rows[i], origBase, salt) =>
                       /\ call.result # Null
                       /\ call.raw = project(client.schema, tables, call.model,
                                             rows[i], call.args)
                       /\ hasOwn(call.result, origBase) =>
                              getProp(call.result, origBase) = Num(origP)
                /\ (/\ isPotentialSaltId(origP, SaltLength)
                    /\ rows[i][origBase] = Num(d.id)
                    /\ rows[i][salt] # Num(d.salt)) => call.result = Null

C6_Witness ==
    /\ call.operation = "findUnique" /\ call.pc = "returned"
    /\ call.model = "User" /\ Len(tables["User"]) = 2
    /\ isPublicIdOf(origP, tables["User"][2], "id", "idSalt")
    /\ getProp(call.result, "id") = Num(origP)
    /\ getProp(call.result, "name") = Str("n")

\* the User row a Post row's foreign key and foreign-key salt point at
parentOf(row) ==
    LET users == tables["User"] IN
    IF \E i \in 1..Len(users) :
           /\ users[i]["id"] = row["authorId"]
           /\ users[i]["idSalt"] = row["authorIdSalt"]
           /\ users[i]["idSalt"].t = "number"
    THEN users[CHOOSE i \in 1..Len(users) : users[i]["id"] = row["authorId"]]
    ELSE Undefined

\* the User row whose public id is P
userOfPublicId(P) ==
    LET users == tables["User"] IN
    IF \E i \in 1..Len(users) : isPublicIdOf(P, users[i], "id", "idSalt")
    THEN users[CHOOSE i \in 1..Len(users) :
                   isPublicIdOf(P, users[i], "id", "idSalt")]
    ELSE Undefined

\* the Post row a findUnique by postPk addresses
addressedPost ==
    LET posts == tables["Post"]
        realId == IF isPotentialSaltId(origP, SaltLength)
                  THEN decode(origP, SaltLength).id ELSE origP
    IN  posts[CHOOSE i \in 1..Len(posts) : posts[i]["postPk"] = Num(realId)]

\* C7: relation write - when a child is created with a parent's public id
\* P as the foreign key, the payload sent to the storage holds decode(P).id
\* and decode(P).salt (Pass B did not overwrite the salt), the child's
\* persisted foreign-key salt equals the parent's persisted salt, and
\* re-reading the child, with or without the relation included, yields P
\* for the foreign key and for the parent's id.
C7_RelationWrite ==
    /\ (/\ call.operation = "create" /\ call.model = "Post"
        /\ call.pc \in {"query", "resume", "returned"}
        /\ getProp(origData, "authorId").t = "number"
        /\ userOfPublicId(getProp(origData, "authorId").n) # Undefined) =>
           LET P == getProp(origData, "authorId").n
               d == decode(P, SaltLength)
               sent == getProp(call.args, "data")
           IN  /\ getProp(sent, "authorId") = Num(d.id)
               /\ getProp(sent, "authorIdSalt") = Num(d.salt)
               /\ call.pc # "query" =>
                      /\ createdRow["authorId"] = userOfPublicId(P)["id"]
                      /\ createdRow["authorIdSalt"] =
                             userOfPublicId(P)["idSalt"]
    /\ (/\ call.operation = "findUnique" /\ call.model = "Post"
        /\ call.pc = "returned" /\ call.result # Null
        /\ parentOf(addressedPost) # Undefined) =>
           LET parent == parentOf(addressedPost)
               P == Composed(parent["id"].n, parent["idSalt"].n)
           IN  /\ getProp(call.result, "authorId") = P
               /\ hasOwn(call.orig, "include") =>
                      getProp(getProp(call.result, "author"), "id") = P

C7_Witness ==
    /\ call.operation = "findUnique" /\ call.model = "Post"
    /\ call.pc = "returned" /\ call.result # Null
    /\ hasOwn(call.orig, "include")
    /\ parentOf(addressedPost) # Undefined
    /\ getProp(call.result, "authorId").t = "number"
    /\ isPotentialSaltId(getProp(call.result, "authorId").n, SaltLength)
    /\ getProp(getProp(call.result, "author"), "id") =
           getProp(call.result, "authorId")

\* some record of the result enumerates a registered salt field
RECURSIVE exposesSalt(_, _)
exposesSalt(data, model) ==
    IF data.t = "array"
    THEN \E i \in 1..Len(data.items) : exposesSalt(data.items[i], model)
    ELSE IF data.t = "object"
    THEN \E i \in 1..Len(data.props) :
            /\ data.props[i].enumerable
            /\ \/ \E j \in 1..Len(getSaltFields(modelRegistry, model)) :
                     getSaltFields(modelRegistry, model)[j].salt
                         = data.props[i].key
               \/ /\ getRelation(modelRegistry, model, data.props[i].key)
                         # Undefined
                  /\ exposesSalt(data.props[i].value,
                         getRelation(modelRegistry, model,
                                     data.props[i].key).type)
    ELSE FALSE

\* C9: for every result an intercepted model operation returns - whatever
\* the operation, the select/include arguments and the stored rows -
\* enumerating any record of the result never exposes a registered salt
\* field.
C9_NeverExposesSalt ==
    call.pc = "returned" => ~exposesSalt(call.result, call.model)

(***************************************************************************)
(* Properties of the registry, checked under SpecRegistry.                 *)
(***************************************************************************)
Entities == {"User", "Post", "Nope"}

Keys ==
    {"id", "idSalt", "idKey", "idSaltSalt", "author", "posts", "name",
     "postPk", "postPkSalt", "authorId", "authorIdSalt", "title"}

\* every lookup of the two registries gives the same result
sameLookups(r1, r2) ==
    \A E \in Entities :
        /\ getSaltFields(r1, E) = getSaltFields(r2, E)
        /\ \A f \in Keys : getRelation(r1, E, f) = getRelation(r2, E, f)

initReturned == direct.fn = "init" /\ direct.pc = "done"

\* C11: idempotent registry init - an init call on a registry that is
\* already initialized, whatever its descriptor and suffix, changes no
\* getSaltFields and no getRelation result; an init call with a null or
\* absent descriptor does not raise, changes no lookup result and leaves the
\* initialized flag as it was (false on a fresh registry).
C11_IdempotentInit ==
    initReturned =>
        /\ direct.before.initialized => sameLookups(direct.before, modelRegistry)
        /\ ~truthy(direct.dmmf) =>
               /\ ~direct.threw
               /\ sameLookups(direct.before, modelRegistry)
               /\ modelRegistry.initialized = direct.before.initialized

\* a second init whose descriptor would register other pairs on a fresh
\* registry, and an init with no descriptor on a fresh registry
C11_Witness ==
    /\ initReturned /\ direct.n = 2 /\ direct.before.initialized
    /\ truthy(direct.dmmf) /\ ~parseThrows(direct.dmmf)
    /\ ~sameLookups(init(NewRegistry, direct.dmmf, direct.suffix), modelRegistry)

\* the field list of entity E in the descriptor, empty when E is not in it
fieldsOfEntity(dmmf, E) ==
    IF \E i \in 1..Len(dmmf.datamodel.models) : dmmf.datamodel.models[i].name = E
    THEN dmmf.datamodel.models[
             CHOOSE i \in 1..Len(dmmf.datamodel.models) :
                 dmmf.datamodel.models[i].name = E].fields
    ELSE <<>>

\* the field of that name is an integer-typed scalar field
isIntScalar(fields, name) ==
    \E i \in 1..Len(fields) :
        fields[i].name = name /\ fields[i].kind = "scalar" /\ fields[i].type = "Int"

\* the relation-typed field of that name, as the registry records it
relationOf(fields, name) ==
    IF \E i \in 1..Len(fields) : fields[i].name = name /\ fields[i].kind = "object"
    THEN {[name |-> name, type |-> fields[i].type, isList |-> fields[i].isList] :
             i \in {j \in 1..Len(fields) :
                       fields[j].name = name /\ fields[j].kind = "object"}}
    ELSE {Undefined}

initOfFresh ==
    /\ initReturned /\ direct.before = NewRegistry
    /\ truthy(direct.dmmf) /\ ~direct.threw

\* C18: registry pair rule - after init of a fresh registry with a well
\* formed descriptor and a suffix, getSaltFields(E) holds a pair
\* {base: F, salt: F+suffix} iff F and F+suffix are both integer-typed scalar
\* fields of E, and holds nothing else; getRelation(E, f) is the target and
\* list-ness of f iff f is a relation-typed field of E, undefined otherwise;
\* an entity the descriptor does not name has no pair and no relation.
C18_PairRule ==
    initOfFresh =>
        \A E \in Entities :
            /\ \A F \in Keys :
                   (\E k \in 1..Len(getSaltFields(modelRegistry, E)) :
                        /\ getSaltFields(modelRegistry, E)[k].base = F
                        /\ getSaltFields(modelRegistry, E)[k].salt
                               = F \o direct.suffix)
                   <=> /\ isIntScalar(fieldsOfEntity(direct.dmmf, E), F)
                       /\ isIntScalar(fieldsOfEntity(direct.dmmf, E),
                                      F \o direct.suffix)
            /\ \A k \in 1..Len(getSaltFields(modelRegistry, E)) :
                   /\ getSaltFields(modelRegistry, E)[k].base \in Keys
                   /\ getSaltFields(modelRegistry, E)[k].salt
                          = getSaltFields(modelRegistry, E)[k].base
                                \o direct.suffix
            /\ \A f \in Keys :
                   getRelation(modelRegistry, E, f)
                       \in relationOf(fieldsOfEntity(direct.dmmf, E), f)

\* an entity with an Int id, a String idSalt and an Int idKey, parsed with
\* the suffix "Key" and with the suffix "Salt"; and an entity with a relation
C18_Witness ==
    /\ initOfFresh
    /\ isIntScalar(fieldsOfEntity(direct.dmmf, "User"), "idKey")
    /\ Len(getSaltFields(modelRegistry, "User"))
           = (IF direct.suffix = "Key" THEN 1 ELSE 0)
    /\ getSaltFields(modelRegistry, "Nope") = <<>>

\* the descriptor is an object that lacks its model list, or has a model
\* that lacks its field list
malformed(dmmf) ==
    /\ truthy(dmmf)
    /\ \/ "datamodel" \notin DOMAIN dmmf
       \/ "models" \notin DOMAIN dmmf.datamodel
       \/ \E i \in 1..Len(dmmf.datamodel.models) :
              "fields" \notin DOMAIN dmmf.datamodel.models[i]

\* C19: init of a fresh registry with a malformed descriptor does not raise,
\* and afterwards no entity has a registered pair.
C19_MalformedFailsOpen ==
    (initReturned /\ direct.before = NewRegistry /\ malformed(direct.dmmf)) =>
        /\ ~direct.threw
        /\ \A E \in Entities : getSaltFields(modelRegistry, E) = <<>>

(***************************************************************************)
(* Properties of Pass A, checked under SpecPassA.                          *)
(***************************************************************************)
\* the call of Pass A has returned
transformReturned == direct.pc = "done"

\* C12: under a salted base field, the selection marker true puts the
\* marker true under the paired salt key of the same object unless that key
\* is present already, an ordering direction leaves the object as it is and
\* adds no salt key, and neither reports a decomposition
C12_MarkerAndDirection ==
    transformReturned /\ direct.form \in {"select", "orderBy", "combined"} =>
        /\ ~direct.did
        /\ objectKeys(direct.out) = objectKeys(direct.obj)
        /\ getProp(direct.out, "orderBy") = getProp(direct.obj, "orderBy")
        /\ direct.form # "orderBy" =>
               getProp(direct.out, "select") =
                   IF hasOwn(direct.rest, "id") /\ ~hasOwn(direct.rest, "idSalt")
                   THEN setProp(direct.rest, "idSalt", True)
                   ELSE direct.rest

C12_Witness ==
    /\ transformReturned /\ direct.form = "combined"
    /\ ~hasOwn(direct.rest, "idSalt")
    /\ getProp(getProp(direct.out, "select"), "idSalt") = True
    /\ getProp(direct.out, "orderBy") = Obj(<<Prop("id", Str("desc"))>>)

\* the rows a User table may hold: a real id, a salt or NULL, a name
UserRows ==
    {[id |-> Num(r), idSalt |-> s, name |-> Str(n)] :
        r \in {0, 1, 2, 3, 999}, s \in {Num(100), Num(123), Num(223), Null},
        n \in {"n", "m"}}

\* the where selects the row
selects(where, row) == whereHolds(row, where) = "T"

\* the where Pass A was given and the where it left
whereIn == getProp(direct.obj, "where")
whereOut == getProp(direct.out, "where")

\* the entry is a public id: it has more than SaltLength digits
salted(P) == isPotentialSaltId(P.n, SaltLength)

\* C13: for gt, gte, lt, lte on a salted base field with a public id P as
\* operand, Pass A puts decode(P).id in the place of P and adds no
\* condition on the salt field, so the rows selected are those whose real
\* id compares accordingly with decode(P).id, whatever their salt
C13_RangeByRealId ==
    LET compares(op, r, id) ==
            CASE op = "gt" -> r > id
              [] op = "gte" -> r >= id
              [] op = "lt" -> r < id
              [] op = "lte" -> r <= id
        decodedId == decode(direct.ids[1].n, SaltLength).id
    IN  transformReturned /\ direct.form = "range" /\ salted(direct.ids[1]) =>
            /\ direct.did
            /\ getProp(getProp(whereOut, "id"), direct.op) = Num(decodedId)
            /\ whereOut =
                   setProp(whereIn, "id",
                           setProp(getProp(whereIn, "id"), direct.op,
                                   Num(decodedId)))
            /\ \A row \in UserRows :
                   selects(whereOut, row) <=>
                       /\ compares(direct.op, row.id.n, decodedId)
                       /\ selects(setProp(direct.rest, "id",
                                     deleteProp(getProp(whereIn, "id"),
                                                direct.op)), row)

\* gt with the public id of the second of three rows selects the third only
C13_Witness ==
    /\ transformReturned /\ direct.form = "range" /\ direct.op = "gt"
    /\ direct.ids = <<Num(2232)>> /\ direct.rest = Obj(<<>>)
    /\ getProp(whereIn, "id") = Obj(<<Prop("gt", Num(2232))>>)
    /\ \A row \in UserRows : selects(whereOut, row) <=> row.id.n \in {3, 999}

\* some entry of the list names the row: a public id that decodes to the
\* row's real id and salt, or an id of at most SaltLength digits that is
\* the row's real id
named(ids, row) ==
    \E i \in 1..Len(ids) :
        IF salted(ids[i])
        THEN /\ row.id = Num(decode(ids[i].n, SaltLength).id)
             /\ row.idSalt = Num(decode(ids[i].n, SaltLength).salt)
        ELSE row.id = ids[i]

\* the conjuncts a where holds under AND
conjuncts(where) ==
    IF getProp(where, "AND") = Undefined THEN <<>>
    ELSE IF getProp(where, "AND").t = "array" THEN getProp(where, "AND").items
    ELSE <<getProp(where, "AND")>>

\* the where given, with the operators ops taken from the filter on the
\* base field
whereWithout(ops) ==
    setProp(direct.rest, "id",
            Obj(SelectSeq(getProp(whereIn, "id").props,
                          LAMBDA p : p.key \notin ops)))

\* C14: for {base: {in: list}} with a non-empty list of numbers, the where
\* Pass A leaves selects a row (r, s) iff an entry of more than L digits
\* decodes to exactly (r, s) or an entry of at most L digits equals r; in is
\* removed from the filter on the base field, the base key is deleted when
\* that filter is left empty, and every other conjunct, a pre-existing AND
\* included, is kept
C14_Membership ==
    transformReturned /\ direct.form = "in" =>
        /\ ~hasOwn(getProp(whereOut, "id"), "in")
        /\ IF whereWithout({"in"}) = setProp(direct.rest, "id", Obj(<<>>))
           THEN ~hasOwn(whereOut, "id")
           ELSE getProp(whereOut, "id") = getProp(whereWithout({"in"}), "id")
        /\ getProp(whereOut, "name") = getProp(direct.rest, "name")
        /\ Len(conjuncts(whereOut)) = Len(conjuncts(direct.rest)) + 1
        /\ SubSeq(conjuncts(whereOut), 1, Len(conjuncts(direct.rest)))
               = conjuncts(direct.rest)
        /\ \A row \in UserRows :
               selects(whereOut, row) <=>
                   /\ named(direct.ids, row)
                   /\ selects(whereWithout({"in"}), row)

C14_Witness ==
    /\ transformReturned /\ direct.form = "in"
    /\ direct.ids = <<Num(1233), Num(2)>>
    /\ direct.rest = Obj(<<Prop("AND", Obj(<<Prop("name", Str("n"))>>))>>)
    /\ hasOwn(whereIn, "id") /\ ~hasOwn(whereOut, "id")
    /\ \A row \in UserRows :
           selects(whereOut, row) <=>
               /\ row.name = Str("n")
               /\ \/ row.id = Num(3) /\ row.idSalt = Num(123)
                  \/ row.id = Num(2)

\* the call is an exclusion or a negation on the base field
excluding == transformReturned /\ direct.form \in {"notIn", "not"}

\* C15: for {base: {notIn: list}}, {base: {not: P}}, {base: {not: {equals:
\* P}}} and {base: {not: {in: list}}}, the where Pass A leaves selects a
\* row (r, s) iff no entry of more than L digits decodes to exactly (r, s)
\* and r equals no entry of at most L digits
C15_Exclusion ==
    excluding =>
        \A row \in UserRows :
            selects(whereOut, row) <=>
                ~named(direct.ids, row) /\ selects(direct.rest, row)

\* the same, of the rows that hold a salt
C15_ExclusionOfSaltedRows ==
    excluding =>
        \A row \in UserRows :
            row.idSalt # Null =>
                (selects(whereOut, row) <=>
                    ~named(direct.ids, row) /\ selects(direct.rest, row))

(***************************************************************************)
(* Properties of the raw query adapter, checked under SpecRaw.             *)
(***************************************************************************)
\* the rows a statement may range over: a real id and a salt or NULL
RawRows ==
    {[id |-> Num(r), idSalt |-> s] :
        r \in {-2, 0, 2, 3, 5, 999},
        s \in {Num(0), Num(100), Num(123), Num(223), Null}}

\* the call of the adapter has returned or thrown
rawReturned == direct.pc = "done"

\* the ids a builder was given
idsGiven ==
    IF direct.fn # "in" THEN direct.args
    ELSE IF direct.args[1].t = "array" THEN direct.args[1].items
    ELSE <<direct.args[1]>>

\* the row has the real id and the salt the public id decodes to
decodesTo(P, row) ==
    /\ row.id = Num(decode(P.n, SaltLength).id)
    /\ row.idSalt = Num(decode(P.n, SaltLength).salt)

rowOf(rows) == IF rows.t = "array" THEN rows.items[1] ELSE rows

\* what the structured hijacker makes of the same rows without a registry
structured == deepHijackResult(direct.args[1], config, "", Undefined)

\* result or resultScan has returned on a row that holds both keys
rawHijacked ==
    /\ rawReturned /\ direct.fn \in {"result", "resultScan"}
    /\ hasOwn(rowOf(direct.args[1]), "id")
    /\ hasOwn(rowOf(direct.args[1]), "idSalt")

\* C17: on a row that holds the base key and the salt key, whatever their
\* values, hijackObject (through result and through resultScan) and
\* deepHijackResult without a registry leave the same enumerable keys, the
\* same base read value and the same salt read value
C17_SameAsStructured ==
    rawHijacked =>
        /\ objectKeys(rowOf(direct.out)) = objectKeys(rowOf(structured.data))
        /\ getProp(rowOf(direct.out), "id")
               = getProp(rowOf(structured.data), "id")
        /\ getProp(rowOf(direct.out), "idSalt")
               = getProp(rowOf(structured.data), "idSalt")

\* the same, of the rows whose base is not null
C17_SameUnlessNullBase ==
    rawHijacked /\ getProp(rowOf(direct.args[1]), "id") # Null =>
        /\ objectKeys(rowOf(direct.out)) = objectKeys(rowOf(structured.data))
        /\ getProp(rowOf(direct.out), "id")
               = getProp(rowOf(structured.data), "id")
        /\ getProp(rowOf(direct.out), "idSalt")
               = getProp(rowOf(structured.data), "idSalt")

(***************************************************************************)
(* Properties of Pass B, checked under SpecPassB.                          *)
(***************************************************************************)
\* the call of Pass B has returned
injectReturned == direct.pc = "done" /\ direct.fn = "injectForOperation"

\* the create payloads among the arguments of an operation
createPayloads(operation, args) ==
    CASE operation = "create" -> <<getProp(args, "data")>>
      [] operation = "createMany" -> getProp(args, "data").items
      [] operation = "upsert" -> <<getProp(args, "create")>>

\* the schema the registry was built from gives the field a default
storageDefault(model, name) ==
    defaultStatus(modelFields(IF modelRegistry = init(NewRegistry, SaltDefaultDmmf,
                                                      config.saltSuffix)
                              THEN SaltDefaultDmmf ELSE RepoDmmf,
                              model),
                  name)

\* the salts generateSalt can return
GeneratedSalts == {Num(generateSalt(SaltLength, k)) : k \in 0..(RandDen - 1)}

\* the rule of one pair on one payload: before is the payload Pass B was
\* given, after the payload it left
injectionRule(model, f, before, after) ==
    /\ getProp(after, f.base) = getProp(before, f.base)
    /\ IF getProp(before, f.salt) # Undefined
       THEN getProp(after, f.salt) = getProp(before, f.salt)
       ELSE IF /\ ~storageDefault(model, f.salt)
               /\ \/ storageDefault(model, f.base)
                  \/ getProp(before, f.base) # Undefined
       THEN /\ getProp(after, f.salt) \in GeneratedSalts
            /\ Len(toString(getProp(after, f.salt).n)) = SaltLength
       ELSE getProp(after, f.salt) = Undefined

writeDone == direct.pc = "done" /\ direct.fn = "$allOperations"

\* the value at a path of keys and indices
RECURSIVE at(_, _)
at(val, path) ==
    LET index(k) == CHOOSE d \in 0..9 : DigitChars[d + 1] = k
        step(k) ==
            IF val.t = "array" THEN val.items[index(k) + 1]
            ELSE getProp(val, k)
    IN  IF path = <<>> THEN val ELSE at(step(Head(path)), Tail(path))

\* the payload lies inside the payload at root
inside(pl, root) ==
    /\ Len(pl.path) > Len(root.path)
    /\ SubSeq(pl.path, 1, Len(root.path)) = root.path

\* the caller supplied the salt, or Pass A decoded it from the public id
\* the caller gave the base
suppliedOrDecoded(f, given, after) ==
    \/ getProp(given, f.salt) = getProp(after, f.salt)
    \/ /\ getProp(given, f.base).t = "number"
       /\ isPotentialSaltId(getProp(given, f.base).n, SaltLength)
       /\ getProp(after, f.salt)
              = Num(decode(getProp(given, f.base).n, SaltLength).salt)

createRule(pl) ==
    \A j \in 1..Len(getSaltFields(modelRegistry, pl.model)) :
        injectionRule(pl.model, getSaltFields(modelRegistry, pl.model)[j],
                      at(direct.afterA, pl.path), at(direct.out, pl.path))

\* the payload is an element of a list given to connectOrCreate or upsert
inVerbList(pl) ==
    \E i \in 1..(Len(pl.path) - 1) :
        /\ pl.path[i] \in {"connectOrCreate", "upsert"}
        /\ pl.path[i + 1] \in {"0", "1"}

\* C22: every payload under create, createMany.data, connectOrCreate.create
\* or upsert.create of a relation, single or in a list, gets its salts by
\* the create rule of the relation's target model, and a payload under
\* connect, update or delete is left as Pass A left it
C22_NestedInjection ==
    writeDone =>
        \A i \in 1..Len(direct.payloads) :
            /\ direct.payloads[i].via
                   \in {"create", "createMany", "connectOrCreate", "upsert"}
               => createRule(direct.payloads[i])
            /\ direct.payloads[i].via \in {"connect", "update", "delete"}
               => at(direct.out, direct.payloads[i].path)
                      = at(direct.afterA, direct.payloads[i].path)

\* the same, but for the lists given to connectOrCreate and upsert
C22_NestedInjectionButVerbLists ==
    writeDone =>
        \A i \in 1..Len(direct.payloads) :
            /\ /\ direct.payloads[i].via
                      \in {"create", "createMany", "connectOrCreate", "upsert"}
               /\ ~inVerbList(direct.payloads[i])
               => createRule(direct.payloads[i])
            /\ direct.payloads[i].via \in {"connect", "update", "delete"}
               => at(direct.out, direct.payloads[i].path)
                      = at(direct.afterA, direct.payloads[i].path)

\* a post created in a list given to connectOrCreate gets no salt for its key
C22_VerbListReached ==
    /\ writeDone
    /\ \E i \in 1..Len(direct.payloads) :
           /\ direct.payloads[i].via = "connectOrCreate"
           /\ inVerbList(direct.payloads[i])
           /\ ~hasOwn(at(direct.out, direct.payloads[i].path), "postPkSalt")


\* Pass A has run
passADone == direct.fn = "$allOperations" /\ direct.pc \in {"passA", "done"}

\* the payload gives the base the public id P, plainly or under set
givesPublicId(given, f, P) ==
    /\ isPotentialSaltId(P, SaltLength)
    /\ getProp(given, f.base) \in {Num(P), Obj(<<Prop("set", Num(P))>>)}

\* the payload assigns the base the real id of P and the salt field the salt
\* of P, and has no key it did not have but the salt field
unpacked(given, after, f, P) ==
    /\ getProp(after, f.base)
           \in {Num(decode(P, SaltLength).id),
                Obj(<<Prop("set", Num(decode(P, SaltLength).id))>>)}
    /\ getProp(after, f.salt) = Num(decode(P, SaltLength).salt)
    /\ \A i \in 1..Len(objectKeys(after)) :
           \/ objectKeys(after)[i] = f.salt
           \/ hasOwn(given, objectKeys(after)[i])

\* C26: a write payload that gives a salted base field a public id P,
\* directly or under set, assigns after Pass A the base field decode(P).id
\* and the salt field decode(P).salt, and gains no other key
C26_WriteUnpacking ==
    passADone =>
        \A i \in 1..Len(direct.payloads) :
            \A j \in 1..Len(getSaltFields(modelRegistry, direct.payloads[i].model)) :
                givesPublicId(at(direct.args, direct.payloads[i].path),
                              getSaltFields(modelRegistry,
                                            direct.payloads[i].model)[j], 1232)
                => unpacked(at(direct.args, direct.payloads[i].path),
                            at(direct.afterA, direct.payloads[i].path),
                            getSaltFields(modelRegistry,
                                          direct.payloads[i].model)[j], 1232)

\* the same for a public id given directly, beside no salt of the caller
C26_DirectUnpacking ==
    passADone =>
        \A i \in 1..Len(direct.payloads) :
            \A j \in 1..Len(getSaltFields(modelRegistry, direct.payloads[i].model)) :
                /\ getProp(at(direct.args, direct.payloads[i].path),
                           getSaltFields(modelRegistry,
                                         direct.payloads[i].model)[j].base)
                       = Num(1232)
                /\ ~hasOwn(at(direct.args, direct.payloads[i].path),
                           getSaltFields(modelRegistry,
                                         direct.payloads[i].model)[j].salt)
                => unpacked(at(direct.args, direct.payloads[i].path),
                            at(direct.afterA, direct.payloads[i].path),
                            getSaltFields(modelRegistry,
                                          direct.payloads[i].model)[j], 1232)

\* a payload that gave authorId under set holds the key AND afterwards, and
\* no authorIdSalt
C26_SetAppendsAnd ==
    /\ passADone /\ direct.model = "Post" /\ direct.operation = "update"
    /\ getProp(at(direct.args, <<"data">>), "authorId")
           = Obj(<<Prop("set", Num(1232))>>)
    /\ ~hasOwn(at(direct.args, <<"data">>), "authorIdSalt")
    /\ getProp(at(direct.afterA, <<"data">>), "AND")
           = Arr(<<Obj(<<Prop("authorIdSalt", Num(123))>>)>>)
    /\ ~hasOwn(at(direct.afterA, <<"data">>), "authorIdSalt")

(***************************************************************************)
(* Properties of the extended client, checked under SpecClient.            *)
(***************************************************************************)
\* the random streams a request may be served under
Streams == RandomStreams \cup {[i \in 1..MaxDraws |-> k] : k \in Draws}

\* the arguments are those given after Pass A, then Pass B, then, for a
\* findUnique that Pass A decoded, the removal of the salts from the where
transformedFrom(c, reg) ==
    LET passA == IF truthy(c.orig)
                 THEN deepTransformInput(c.orig, c.model, reg, config)
                 ELSE Same(c.orig)
        last(passB) ==
            IF c.operation = "findUnique" /\ passA.didTransformId
            THEN downgrade(passB, c.model, reg).args
            ELSE passB
    IN  \E rnds \in Streams :
            c.args = last(injectForOperation(c.operation, passA.obj, c.model,
                                             reg, rnds))

\* C23: the wrapped execution is invoked once per operation, with the
\* arguments as Pass A, Pass B and the downgrade left them and with nothing
\* hijacked yet; the storage changes only as that execution runs; a result
\* is hijacked and returned only after the execution resolved; when the
\* execution rejects, the operation ends there, with the error of the
\* execution, the storage as it was and nothing hijacked
C23_PipelineOrder ==
    [][/\ call'.pc = "query" =>
              /\ call.pc \in {"idle", "returned", "threw"}
              /\ modelRegistry'.initialized
              /\ transformedFrom(call', modelRegistry')
              /\ call'.raw = Undefined /\ call'.result = Undefined
       /\ call.pc = "query" =>
              /\ call'.pc \in {"resume", "threw"}
              /\ call'.args = call.args /\ call'.orig = call.orig
              /\ call'.pc = "resume" =>
                     /\ call'.raw = query(client.schema, tables, call.model,
                                          call.operation, call.args).result
                     /\ call'.result = Undefined
              /\ call'.pc = "threw" =>
                     /\ call'.raw = QueryError /\ call'.result = QueryError
                     /\ tables' = tables
       /\ tables' # tables => call.pc = "query" /\ call'.pc = "resume"
       /\ call.pc = "resume" =>
              /\ call'.pc \in {"returned", "threw"}
              /\ call'.raw = call.raw /\ call'.args = call.args
       /\ call'.pc = "returned" => call.pc = "resume"
       /\ call.pc \in {"returned", "threw"} =>
              call'.raw = Undefined \/ call'.pc = "threw"]_vars

\* a write whose arguments the passes changed was rejected by the execution
C23_Witness ==
    /\ call.pc = "threw" /\ call.raw = QueryError
    /\ call.operation = "update"
    /\ call.args # call.orig

\* no descriptor was passed and the client carries none under a field that
\* extractDmmfFromClient reads
noDescriptor ==
    /\ descriptor.t \in {"undefined", "null"}
    /\ client._dmmf = Undefined
    /\ client._engineConfig = Undefined
    /\ client._runtimeDataModel = Undefined

\* C24: with no descriptor passed and none carried by the client, every
\* model operation throws before the wrapped execution: the call is never
\* at its await nor past it, its arguments are those it was given, nothing
\* was executed or returned, the storage is as it was, and the registry
\* stays uninitialized and empty
C24_ConfigurationError ==
    noDescriptor =>
        /\ modelRegistry = NewRegistry
        /\ call.pc \in {"idle", "threw"}
        /\ call.pc = "threw" =>
               /\ call.args = call.orig
               /\ call.raw = Undefined /\ call.result = Undefined
        /\ tables \in {EmptyDb, [EmptyDb EXCEPT !["User"] = <<LegacyUser>>]}

\* a create threw for want of a descriptor
C24_Witness ==
    /\ noDescriptor
    /\ call.pc = "threw" /\ call.operation = "create"
    /\ ~modelRegistry.initialized

\* the base and the salt of the id of a model's table
idPair(model) ==
    IF model = "User" THEN [base |-> "id", salt |-> "idSalt"]
    ELSE [base |-> "postPk", salt |-> "postPkSalt"]

\* the integer the caller of the returned findUnique gave as the id
askedId == getProp(getProp(call.orig, "where"), idPair(call.model).base)

\* a findUnique by an integer id returned the row: the execution looked up
\* the real id of the row and the call returned a record
retrieves(row) ==
    /\ call.pc = "returned" /\ call.operation = "findUnique"
    /\ askedId.t = "number"
    /\ truthy(call.result)
    /\ getProp(getProp(call.args, "where"), idPair(call.model).base)
           = row[idPair(call.model).base]

\* the row holds a salt of SaltLength digits
holdsSalt(row, pair) ==
    /\ row[pair.salt].t = "number"
    /\ encode(row[pair.base].n, row[pair.salt].n, SaltLength) # Thrown

\* C27: a findUnique by id v returns a row with real id r and a salt s of
\* SaltLength digits only if v = encode(r, s, SaltLength)
C27_LookupExact ==
    call.pc = "returned" =>
    \A i \in 1..Len(tables[call.model]) :
        retrieves(tables[call.model][i])
        /\ holdsSalt(tables[call.model][i], idPair(call.model))
        => askedId.n = encode(tables[call.model][i][idPair(call.model).base].n,
                              tables[call.model][i][idPair(call.model).salt].n,
                              SaltLength).n

\* what holds instead: v is the real id r itself, of at most SaltLength
\* digits, or v decodes to (r, s)
C27_LookupByDecoding ==
    call.pc = "returned" =>
    \A i \in 1..Len(tables[call.model]) :
        retrieves(tables[call.model][i])
        /\ holdsSalt(tables[call.model][i], idPair(call.model))
        => \/ /\ ~isPotentialSaltId(askedId.n, SaltLength)
              /\ askedId = tables[call.model][i][idPair(call.model).base]
           \/ /\ isPotentialSaltId(askedId.n, SaltLength)
              /\ Num(decode(askedId.n, SaltLength).id)
                     = tables[call.model][i][idPair(call.model).base]
              /\ Num(decode(askedId.n, SaltLength).salt)
                     = tables[call.model][i][idPair(call.model).salt]

\* the bare real id retrieved a row that holds a salt
C27_BareIdRetrieves ==
    /\ call.pc = "returned"
    /\ \E i \in 1..Len(tables[call.model]) :
           /\ retrieves(tables[call.model][i])
           /\ holdsSalt(tables[call.model][i], idPair(call.model))
           /\ askedId = tables[call.model][i][idPair(call.model).base]

\* the public id written with a zero before the real id retrieved the row
C27_PaddedIdRetrieves ==
    /\ call.pc = "returned"
    /\ \E i \in 1..Len(tables[call.model]) :
           /\ retrieves(tables[call.model][i])
           /\ holdsSalt(tables[call.model][i], idPair(call.model))
           /\ isPotentialSaltId(askedId.n, SaltLength)
           /\ askedId.n # encode(tables[call.model][i][idPair(call.model).base].n,
                                 tables[call.model][i][idPair(call.model).salt].n,
                                 SaltLength).n

\* the salt field of the pair has a storage default in the client's schema
saltStorageDefault(model, pair) ==
    defaultStatus(modelFields(client.schema, model), pair.salt)

\* every salt the table holds for the pair is null or of SaltLength digits
wellFormedSalts(model, pair) ==
    \A i \in 1..Len(tables[model]) :
        tables[model][i][pair.salt].t = "number" =>
            HasExactlyLDigits(tables[model][i][pair.salt].n, SaltLength)

\* reading a base of the record the execution resolved to raised
readRaised == call.pc = "threw" /\ call.raw \notin {Undefined, QueryError}

\* the base of the returned record reads null where the row holds null, and
\* the public id composed of the row's real id and salt where it holds both
composedRead(pair) ==
    /\ call.pc = "returned" /\ call.result.t = "object"
    /\ hasOwn(call.result, pair.base)
    /\ getProp(call.result, pair.salt).t = "number"
    => \E i \in 1..Len(tables[call.model]) :
           /\ tables[call.model][i][pair.salt] = getProp(call.result, pair.salt)
           /\ \/ /\ tables[call.model][i][pair.base] = Null
                 /\ getProp(call.result, pair.base) = Null
              \/ /\ tables[call.model][i][pair.base].t = "number"
                 /\ getProp(call.result, pair.base)
                        = Composed(tables[call.model][i][pair.base].n,
                                   tables[call.model][i][pair.salt].n)
                 /\ getProp(call.result, pair.base) # Thrown

\* C29 as stated: the callers of SpecClient supply no salt field; every
\* persisted non-null salt has SaltLength digits, reading a base of a
\* returned record never raises, and it yields null or the public id
\* composed of the row's real id and salt
C29_AsStated ==
    /\ \A model \in {"User", "Post"} :
           \A j \in 1..Len(getSaltFields(modelRegistry, model)) :
               wellFormedSalts(model, getSaltFields(modelRegistry, model)[j])
    /\ ~readRaised
    /\ \A j \in 1..Len(getSaltFields(modelRegistry, call.model)) :
           composedRead(getSaltFields(modelRegistry, call.model)[j])

\* C29 amended: the same for the pairs whose salt field has no storage
\* default; a read raises only on a schema that has such a default
C29_SaltWellFormed ==
    /\ \A model \in {"User", "Post"} :
           \A j \in 1..Len(getSaltFields(modelRegistry, model)) :
               ~saltStorageDefault(model, getSaltFields(modelRegistry, model)[j])
               => wellFormedSalts(model, getSaltFields(modelRegistry, model)[j])
    /\ readRaised =>
           \E model \in {"User", "Post"} :
               \E j \in 1..Len(getSaltFields(modelRegistry, model)) :
                   saltStorageDefault(model, getSaltFields(modelRegistry, model)[j])
    /\ \A j \in 1..Len(getSaltFields(modelRegistry, call.model)) :
           ~saltStorageDefault(call.model, getSaltFields(modelRegistry, call.model)[j])
           => composedRead(getSaltFields(modelRegistry, call.model)[j])

\* an update gave a post the public id of a user as its author: the row
\* holds the user's salt and the returned record reads the public id
C29_Witness ==
    /\ call.pc = "returned" /\ call.operation = "update" /\ call.model = "Post"
    /\ descriptor = RepoDmmf
    /\ getProp(getProp(call.orig, "data"), "authorId").t = "number"
    /\ isPotentialSaltId(getProp(getProp(call.orig, "data"), "authorId").n,
                         SaltLength)
    /\ getProp(call.result, "authorId")
           = getProp(getProp(call.orig, "data"), "authorId")
    /\ \E i \in 1..Len(tables["Post"]) :
           /\ tables["Post"][i]["authorIdSalt"].t = "number"
           /\ tables["Post"][i]["authorId"]
                  = Num(decode(getProp(getProp(call.orig, "data"), "authorId").n,
                               SaltLength).id)

(***************************************************************************)
(* Properties of a findUnique issued twice with one argument object,       *)
(* checked under SpecReuse.                                                *)
(***************************************************************************)
\* the second call with the argument object has returned
secondReturned ==
    /\ direct.pc = "reissued"
    /\ call.pc = "returned" /\ call.operation = "findUnique"
    /\ call.orig = direct.left

\* C30: a findUnique issued twice with the same argument object, the
\* storage unchanged between, returns the same result both times
C30_Repeatable == secondReturned => call.result = direct.first

\* what holds instead: a first call that returned a row is followed by a
\* second that returns a row, and the second call looks up the real id that
\* the first call left in the where
C30_SecondLooksUpRealId ==
    secondReturned =>
        /\ truthy(direct.first) => truthy(call.result)
        /\ direct.left # direct.given => ~call.didTransformId
        /\ ~call.didTransformId => call.args = call.orig

\* the first call returned null for a public id forged with another salt,
\* the second returned the row
C30_NullThenRow ==
    /\ secondReturned
    /\ getProp(getProp(direct.given, "where"), "id")
           = Num(encode(1, ForgedSalt, SaltLength).n)
    /\ direct.first = Null
    /\ call.orig = Obj(<<Prop("where", Obj(<<Prop("id", Num(1))>>))>>)
    /\ truthy(call.result)

(***************************************************************************)
(* Properties of two model operations in flight, checked under             *)
(* SpecConcurrent.                                                         *)
(***************************************************************************)
\* the registry that one parse of the descriptor builds
builtRegistry ==
    [parse(NewRegistry, dmmf1, config.saltSuffix) EXCEPT !.initialized = TRUE]

\* the result of the operation is the raw result after the salt check,
\* hijacked against the registry
hijackedFrom(c, reg) ==
    LET hijackOf(result) ==
            IF truthy(result)
            THEN deepHijackResult(result, config, c.model, reg).data
            ELSE result
    IN  c.result = hijackOf(IF c.operation = "findUnique" /\ c.didTransformId
                            THEN verifySalts(c.raw, c.expectedSalts)
                            ELSE c.raw)

\* an operation past its transformation saw the registry that one parse
\* builds, and it transformed and hijacked against that registry
sawBuiltRegistry(c) ==
    /\ c.pc \in {"query", "resume", "returned"} =>
           /\ modelRegistry = builtRegistry
           /\ transformedFrom(c, builtRegistry)
    /\ c.pc = "returned" => hijackedFrom(c, builtRegistry)

\* C25: with two model operations in flight, control passing between them
\* at their awaits, the registry is written in one step only, from the new
\* registry to the registry that one parse of the descriptor builds, and
\* every operation that transformed its arguments or hijacked its result
\* did so against that registry
C25_RaceSafeInit ==
    /\ [](sawBuiltRegistry(call) /\ sawBuiltRegistry(direct))
    /\ [][modelRegistry' # modelRegistry =>
              /\ modelRegistry = NewRegistry
              /\ modelRegistry' = builtRegistry]_vars

\* two first operations in flight: a create awaits its execution, begun
\* while a findUnique that decoded its id awaited its own
C25_Witness ==
    /\ call.pc = "query" /\ call.operation = "create"
    /\ direct.pc = "query" /\ direct.operation = "findUnique"
    /\ direct.didTransformId
    /\ modelRegistry.initialized

(***************************************************************************)
(* Properties of hijacking rows that are hijacked already, checked under   *)
(* SpecRehijack.                                                           *)
(***************************************************************************)
\* the rows of what a hijacker was passed or returned
rowsOf(rows) == IF rows.t = "array" THEN rows.items ELSE <<rows>>

\* the rows read the same: the base, the salt and the enumerable keys
sameReads(before, after) ==
    /\ Len(rowsOf(before)) = Len(rowsOf(after))
    /\ \A i \in 1..Len(rowsOf(before)) :
           /\ getProp(rowsOf(after)[i], "id") = getProp(rowsOf(before)[i], "id")
           /\ getProp(rowsOf(after)[i], "idSalt")
                  = getProp(rowsOf(before)[i], "idSalt")
           /\ objectKeys(rowsOf(after)[i]) = objectKeys(rowsOf(before)[i])

\* C28: a hijacker (result({fields}), resultScan, deepHijackResult) applied
\* to rows that are hijacked already returns, and leaves what the base
\* reads, the value of the salt and the enumerable keys as they were
C28_HijackIdempotent ==
    direct.pc = "again" =>
        ~direct.threw /\ sameReads(direct.prev, direct.out)

\* what holds instead: the hijackers that take the pairs from the
\* enumerable keys, resultScan and deepHijackResult, leave the rows as they
\* were, and raise only on a row whose base raised already when read
C28_ScansIdempotent ==
    direct.pc = "again" /\ direct.second \in {"resultScan", "deepHijackResult"}
        => /\ sameReads(direct.prev, direct.out)
           /\ direct.threw =>
                  \E i \in 1..Len(rowsOf(direct.prev)) :
                      getProp(rowsOf(direct.prev)[i], "id") = Thrown

\* result({ fields: ["id"] }) on a row that resultScan hijacked: the base
\* read the public id of 7 and reads the public id of that public id
C28_ResultSaltsAgain ==
    /\ direct.pc = "again" /\ direct.fn = "resultScan" /\ direct.n = 1
    /\ direct.second = "result" /\ ~direct.threw
    /\ direct.prev.t = "object"
    /\ getProp(direct.prev, "id") = Composed(7, generateSalt(SaltLength, 0))
    /\ getProp(direct.out, "id")
           = Composed(Composed(7, generateSalt(SaltLength, 0)).n,
                      generateSalt(SaltLength, 0))

=============================================================================
